---- MODULE Spec2Model ----
(***************************************************************************)
(* Model of the skill-governance pre-commit hooks (pipeline/hooks):        *)
(* budget/override resolution, ceiling lookup and path classification      *)
(* (_utils.py), the context-load ceiling check (check_context_load.py),    *)
(* the specialist isolation check (check_isolation.py), the token-budget   *)
(* and prose checks (check_token_budget.py, check_prose.py), the reference *)
(* check (check_references.py), the main() loop of each hook over a batch  *)
(* of input paths, and the classification and limit lookup of the budget   *)
(* report (scripts/budget-report.py).                                      *)
(*                                                                         *)
(* Strings that the code takes apart (paths, document lines) are modelled  *)
(* as sequences of tokens; "/" and "\\" are tokens of their own.           *)
(* A Python dict is a function whose DOMAIN is the set of keys present;    *)
(* a JSON null / Python None value is the integer None (limits in the      *)
(* configuration are non-negative integers).                               *)
(***************************************************************************)
EXTENDS Integers, Sequences, FiniteSets, TLC

VARIABLES
    budgets,         \* the loaded budgets.json: [flat |-> dict, overrides |-> dict of dicts]
    rel_path,        \* get_budget_limits argument (token sequence)
    classification,  \* get_budget_limits argument
    limits,          \* <<max_words, max_tokens>> returned by get_budget_limits
    dirs,            \* file system: the directories that exist (absolute paths, segment sequences)
    words,           \* file system: file path |-> whole-file word count, Unreadable if it cannot be read
    errors,          \* the list of findings returned by the last check
    repo_root,       \* isolation check: the repository root (absolute path)
    filepath,        \* isolation check: the file passed to check_file (absolute path)
    lines,           \* isolation check: the lines of that file, each a token sequence
    siblings,        \* isolation check: the sibling set computed by check_file
    specialist_name, \* isolation check: the source specialist computed by check_file
    key_arg,         \* get_context_ceiling argument `key` (token sequence)
    ceiling,         \* the value returned by get_context_ceiling
    hook,            \* batch run: the hook whose main() runs
    argv,            \* batch run: sys.argv[1:], the input paths
    idx,             \* batch run: number of input paths the loop of main() has handled
    texts,           \* batch run: file path |-> the lines of the file
    all_errors,      \* batch run: main()'s all_errors
    all_warnings,    \* batch run: main()'s all_warnings
    checked,         \* batch run: the set `checked` of check_context_load.main
    exit_code,       \* batch run: the argument of sys.exit, NotExited before
    pc               \* position of the run

vars == <<budgets, rel_path, classification, limits, dirs, words, errors,
          repo_root, filepath, lines, siblings, specialist_name,
          key_arg, ceiling, hook, argv, idx, texts, all_errors, all_warnings,
          checked, exit_code, pc>>

budgetVars == <<budgets, rel_path, classification, limits>>
isoVars    == <<repo_root, filepath, lines, siblings, specialist_name>>
ceilVars   == <<key_arg, ceiling>>
batchVars  == <<hook, argv, idx, texts, all_errors, all_warnings, checked, exit_code>>

(***************************************************************************)
(* Python helpers                                                          *)
(***************************************************************************)
None == 0 - 1

\* Python truthiness of a limit value: None and 0 are falsy.
Truthy(v) == v # None /\ v # 0

\* Python `a or b`.
Or(a, b) == IF Truthy(a) THEN a ELSE b

\* dict.get(k) and dict.get(k, default)
Get(d, k) == IF k \in DOMAIN d THEN d[k] ELSE None
GetDefault(d, k, default) == IF k \in DOMAIN d THEN d[k] ELSE default

EmptyDict == [k \in {} |-> None]

\* exit_code while main() has not called sys.exit
NotExited == None

\* the variables of a call or run that does not take place
CeilIdle  == key_arg = <<>> /\ ceiling = None
BatchIdle ==
    /\ hook = "" /\ argv = <<>> /\ idx = 0 /\ texts = EmptyDict
    /\ all_errors = <<>> /\ all_warnings = <<>> /\ checked = {} /\ exit_code = NotExited

\* str.replace("\\", "/") on a token sequence
ReplaceBackslash(s) == [i \in 1..Len(s) |-> IF s[i] = "\\" THEN "/" ELSE s[i]]

\* str.rstrip("/") on a token sequence
RECURSIVE RStripSlash(_)
RStripSlash(s) ==
    IF Len(s) > 0 /\ s[Len(s)] = "/" THEN RStripSlash(SubSeq(s, 1, Len(s) - 1)) ELSE s

(***************************************************************************)
(* _utils.py: constants and token estimate                                 *)
(***************************************************************************)
DEFAULT_CEILING == 5500

\* TOKEN_RATIO = 1.33 as the exact fraction 133/100; math.ceil(n * 1.33)
\* equals ceil(133 n / 100) for every non-negative integer n in range.
TOKEN_RATIO_NUM == 133
TOKEN_RATIO_DEN == 100

CeilRatio(n) == (n * TOKEN_RATIO_NUM + (TOKEN_RATIO_DEN - 1)) \div TOKEN_RATIO_DEN

(***************************************************************************)
(* _utils.py: budget limits                                                *)
(***************************************************************************)
Roles == {"coordinator", "specialist", "standalone", "reference"}

get_budget_for_type(file_type, b) ==
    IF file_type \notin Roles
    THEN <<None, None>>
    ELSE <<Get(b.flat, file_type \o "_max_words"), Get(b.flat, file_type \o "_max_tokens")>>

get_budget_limits(rp, cls, b) ==
    LET overrides  == b.overrides
        normalized == ReplaceBackslash(rp)
        word_key   == cls \o "_max_words"
        token_key  == cls \o "_max_tokens"
    IN  IF normalized \in DOMAIN overrides
        THEN LET override  == overrides[normalized]
                 max_words == Or(Get(override, word_key), Get(override, "max_words"))
             IN  IF Truthy(max_words)
                 THEN <<max_words,
                        Or(Get(override, token_key),
                           GetDefault(override, "max_tokens", CeilRatio(max_words)))>>
                 ELSE get_budget_for_type(cls, b)
        ELSE get_budget_for_type(cls, b)

(***************************************************************************)
(* Budget resolution run: inputs drawn in BudgetInit, one call             *)
(***************************************************************************)
MaxWords  == 2     \* override word limits range over 0..MaxWords
MaxTokens == 1     \* override token limits range over 0..MaxTokens

GlobalWords  == 40
GlobalTokens == 50

Classifications == Roles \cup {"skip", "other"}

BudgetPaths == { <<"a", "/", "b">>, <<"a", "\\", "b">>, <<"c">> }

WordKeys  == {"specialist_max_words", "max_words"}
TokenKeys == {"specialist_max_tokens", "max_tokens"}

\* every dict over the given keys, each key absent, null or an integer
Dicts(keys, vals) == UNION { [K -> vals] : K \in SUBSET keys }

Merge(d1, d2) ==
    [k \in DOMAIN d1 \cup DOMAIN d2 |-> IF k \in DOMAIN d1 THEN d1[k] ELSE d2[k]]

OverrideEntries ==
    { Merge(w, t) : w \in Dicts(WordKeys, {None} \cup 0..MaxWords),
                    t \in Dicts(TokenKeys, {None} \cup 0..MaxTokens) }

FlatTables ==
    { EmptyDict,
      [k \in {r \o "_max_words" : r \in Roles} \cup {r \o "_max_tokens" : r \in Roles}
          |-> IF k \in {r \o "_max_words" : r \in Roles} THEN GlobalWords ELSE GlobalTokens] }

BudgetTables ==
    { [flat |-> f, overrides |-> [p \in ks |-> e]] :
          f \in FlatTables, ks \in {{}, {<<"a", "/", "b">>}, {<<"c">>}}, e \in OverrideEntries }

BudgetInit ==
    /\ budgets \in BudgetTables
    /\ rel_path \in BudgetPaths
    /\ classification \in Classifications
    /\ limits = <<None, None>>
    /\ dirs = {}
    /\ words = EmptyDict
    /\ errors = <<>>
    /\ repo_root = <<>>
    /\ filepath = <<>>
    /\ lines = <<>>
    /\ siblings = {}
    /\ specialist_name = ""
    /\ CeilIdle
    /\ BatchIdle
    /\ pc = "start"

\* check_token_budget.check_file line 35: the call of get_budget_limits
ResolveBudget ==
    /\ pc = "start"
    /\ limits' = get_budget_limits(rel_path, classification, budgets)
    /\ pc' = "done"
    /\ UNCHANGED <<budgets, rel_path, classification, dirs, words, errors, isoVars, ceilVars, batchVars>>

BudgetNext == ResolveBudget

BudgetSpec == BudgetInit /\ [][BudgetNext]_vars

(***************************************************************************)
(* Claims about budget resolution (checked under BudgetSpec)               *)
(***************************************************************************)
HasEntry == ReplaceBackslash(rel_path) \in DOMAIN budgets.overrides
Entry    == budgets.overrides[ReplaceBackslash(rel_path)]
PrefW    == classification \o "_max_words"
PrefT    == classification \o "_max_tokens"

\* the key is present in the dict with an integer (non-null) value
IsLimit(d, k) == k \in DOMAIN d /\ d[k] # None

\* the word / token limit an entry supplies: role-prefixed key first, then shorthand
SuppliesWords(e)  == IsLimit(e, PrefW) \/ IsLimit(e, "max_words")
SuppliedWords(e)  == IF IsLimit(e, PrefW) THEN e[PrefW] ELSE e["max_words"]
SuppliesTokens(e) == IsLimit(e, PrefT) \/ IsLimit(e, "max_tokens")
SuppliedTokens(e) == IF IsLimit(e, PrefT) THEN e[PrefT] ELSE e["max_tokens"]

GlobalLimits == <<Get(budgets.flat, PrefW), Get(budgets.flat, PrefT)>>

\* C6: an override entry that supplies a word limit (role-prefixed or
\* shorthand) and no token key of either style resolves to
\* maxTokens = ceil(maxWords * 1.33), for every maxWords and every table.
C6_WordOnlyOverrideDerivesTokens ==
    (/\ pc = "done"
     /\ HasEntry
     /\ SuppliesWords(Entry)
     /\ PrefT \notin DOMAIN Entry
     /\ "max_tokens" \notin DOMAIN Entry)
    => limits[2] = CeilRatio(SuppliedWords(Entry))

\* a limit key an entry can be resolved from: present with a positive integer
Usable(d, k) == k \in DOMAIN d /\ Truthy(d[k])

\* C7: fixed fallback order. With an override entry for the normalized path
\* the role-prefixed key wins over the shorthand whenever it is present, the
\* shorthand is used only when the prefixed key is absent, and the global
\* role limits are returned only when there is no entry or the entry has no
\* usable limit key.
C7_FallbackOrder ==
    pc = "done" =>
      /\ (HasEntry /\ IsLimit(Entry, PrefW)) => limits[1] = Entry[PrefW]
      /\ (HasEntry /\ PrefW \notin DOMAIN Entry /\ Usable(Entry, "max_words"))
            => limits[1] = Entry["max_words"]
      /\ (HasEntry /\ IsLimit(Entry, PrefT)) => limits[2] = Entry[PrefT]
      /\ (HasEntry /\ (\E k \in {PrefW, "max_words", PrefT, "max_tokens"} : Usable(Entry, k)))
            => limits # GlobalLimits

\* C8: an override entry that gives a token limit for the role (prefixed or
\* shorthand) and no word limit resolves to that token limit, not to the
\* global role default.
C8_TokenOnlyOverrideApplies ==
    (/\ pc = "done"
     /\ HasEntry
     /\ SuppliesTokens(Entry)
     /\ PrefW \notin DOMAIN Entry
     /\ "max_words" \notin DOMAIN Entry)
    => limits[2] = SuppliedTokens(Entry)

\* C9: whenever the word limit comes from an override entry, the returned
\* maxTokens is not None, whatever the shape of the entry.
C9_OverrideTokensNeverNone ==
    (/\ pc = "done"
     /\ HasEntry
     /\ Truthy(Or(Get(Entry, PrefW), Get(Entry, "max_words"))))
    => limits[2] # None

\* C10: for classification skip and any role outside the four budget roles
\* the result is (None, None), for every path and every table.
C10_NonRoleHasNoBudget ==
    (pc = "done" /\ classification \notin Roles) => limits = <<None, None>>

(***************************************************************************)
(* File system and os.path, over absolute paths as sequences of segments.  *)
(* A file system fs is [dirs |-> the directories that exist,               *)
(*                      words |-> file path |-> whole-file word count]     *)
(***************************************************************************)
Unreadable == None

\* the file system of the current state
FS == [dirs |-> dirs, words |-> words]

isdir(fs, p)  == p \in fs.dirs
isfile(fs, p) == p \in DOMAIN fs.words

join(d, name) == Append(d, name)
dirname(p)    == SubSeq(p, 1, Len(p) - 1)
basename(p)   == p[Len(p)]

\* os.listdir(d): the names of the entries directly inside d (as a set; the
\* order in which the operating system returns them is arbitrary)
listdir(fs, d) ==
    { q[Len(q)] : q \in { e \in fs.dirs \cup DOMAIN fs.words :
                             Len(e) = Len(d) + 1 /\ SubSeq(e, 1, Len(d)) = d } }

\* number of leading segments that p and q share
RECURSIVE CommonLen(_, _, _)
CommonLen(p, q, n) ==
    IF n < Len(p) /\ n < Len(q) /\ p[n + 1] = q[n + 1] THEN CommonLen(p, q, n + 1) ELSE n

\* os.path.relpath(p, start), as a sequence of segments
relpath(p, start) ==
    LET c   == CommonLen(p, start, 0)
        rel == [i \in 1..(Len(start) - c) |-> ".."] \o SubSeq(p, c + 1, Len(p))
    IN  IF rel = <<>> THEN <<".">> ELSE rel

\* a segment sequence written as a path string (token sequence with "/")
RECURSIVE PathStr(_)
PathStr(segs) ==
    IF Len(segs) = 0 THEN <<>>
    ELSE IF Len(segs) = 1 THEN <<segs[1]>>
    ELSE <<segs[1], "/">> \o PathStr(Tail(segs))

\* file names of the model that end in ".md" (str.endswith(".md"))
MdNames == {"SKILL.md", "r1.md", "r2.md"}
EndsWithMd(name) == name \in MdNames

\* sorted(): entry names in string order
NameOrder ==
    <<"SKILL.md", "a", "ab", "b", "n.txt", "r1.md", "r2.md", "references", "s", "skills", "x", "y">>
Rank(name) == CHOOSE i \in 1..Len(NameOrder) : NameOrder[i] = name

\* the sequence that lists the set S in the order given by the rank function rk
RECURSIVE SortBy(_, _)
SortBy(S, rk) ==
    IF S = {} THEN <<>>
    ELSE LET m == CHOOSE a \in S : \A b \in S : rk[a] <= rk[b]
         IN  <<m>> \o SortBy(S \ {m}, rk)

sorted(S) == SortBy(S, [a \in S |-> Rank(a)])

\* all orders in which the set S can be listed
Perms(S) == { f \in [1..Cardinality(S) -> S] : \A i, j \in 1..Cardinality(S) : f[i] = f[j] => i = j }

\* S listed in the order in which its elements occur in the sequence ord
ListedBy(S, ord) ==
    SortBy(S, [a \in S |-> CHOOSE i \in 1..Len(ord) : ord[i] = a])

(***************************************************************************)
(* _utils.py: estimate_tokens and get_context_ceiling                      *)
(***************************************************************************)
\* estimate_tokens(filepath): whole-file word count times the ratio; 0 when
\* the file cannot be opened or decoded
estimate_tokens(fs, word_count_or_filepath) ==
    IF isfile(fs, word_count_or_filepath) /\ fs.words[word_count_or_filepath] # Unreadable
    THEN CeilRatio(fs.words[word_count_or_filepath])
    ELSE 0

\* variant: the key is looked up as given, neither separators nor trailing
\* slashes normalised
get_context_ceiling_verbatim(key, b) ==
    LET overrides == b.overrides
    IN  IF key \in DOMAIN overrides /\ "max_simultaneous_tokens" \in DOMAIN overrides[key]
        THEN overrides[key]["max_simultaneous_tokens"]
        ELSE GetDefault(b.flat, "max_simultaneous_tokens", DEFAULT_CEILING)

get_context_ceiling(key, b) ==
    LET overrides == b.overrides
        norm_key  == RStripSlash(ReplaceBackslash(key))
    IN  IF norm_key \in DOMAIN overrides /\ "max_simultaneous_tokens" \in DOMAIN overrides[norm_key]
        THEN overrides[norm_key]["max_simultaneous_tokens"]
        ELSE GetDefault(b.flat, "max_simultaneous_tokens", DEFAULT_CEILING)

(***************************************************************************)
(* check_context_load.py                                                   *)
(***************************************************************************)
\* get_reference_files(skill_dir): the .md entries of references/, in the
\* order os.listdir returns them (ord: the listing order of the run)
get_reference_files(fs, skill_dir, ord) ==
    LET refs_dir == join(skill_dir, "references")
    IN  IF ~isdir(fs, refs_dir) THEN <<>>
        ELSE LET mds == SelectSeq(ListedBy(listdir(fs, refs_dir), ord), EndsWithMd)
             IN  [i \in 1..Len(mds) |-> join(refs_dir, mds[i])]

\* the loop of check_suite lines 53-59 over the reference files, from the
\* accumulator acc = <<max_ref_tokens, max_ref_name>>
RECURSIVE largest_reference(_, _, _, _)
largest_reference(fs, refs, acc, root) ==
    IF refs = <<>> THEN acc
    ELSE LET tokens == estimate_tokens(fs, Head(refs))
         IN  largest_reference(fs, Tail(refs),
                               IF tokens > acc[1] THEN <<tokens, relpath(Head(refs), root)>> ELSE acc,
                               root)

\* sum of f[a] over the set S
RECURSIVE SumOver(_, _)
SumOver(S, f) ==
    IF S = {} THEN 0 ELSE LET a == CHOOSE a \in S : TRUE IN f[a] + SumOver(S \ {a}, f)

\* variant: the estimates of all specialist documents of the suite added up
all_specialists_tokens(fs, skills_dir, entry) ==
    SumOver(listdir(fs, skills_dir),
            [o \in listdir(fs, skills_dir) |-> estimate_tokens(fs, join(join(skills_dir, o), "SKILL.md"))])

\* spec_tokens of line 50: the estimate of the one specialist document
specialist_tokens(fs, skills_dir, entry) ==
    estimate_tokens(fs, join(join(skills_dir, entry), "SKILL.md"))

\* total = coord_tokens + spec_tokens + max_ref_tokens (line 61)
context_total(coord_tokens, spec_tokens, max_ref_tokens) ==
    coord_tokens + spec_tokens + max_ref_tokens

\* variant: the ceiling is resolved for the suite directory
ceiling_key_of_suite(suite_dir, spec_dir, root) == PathStr(relpath(suite_dir, root))

\* the key the ceiling is resolved for (line 62): the specialist's own directory
ceiling_key(suite_dir, spec_dir, root) == PathStr(relpath(spec_dir, root))

\* variant: a total equal to the ceiling is reported too
exceeds_or_equals(total, max_tokens) == total >= max_tokens

\* the comparison of line 65
exceeds(total, max_tokens) == total > max_tokens

\* one iteration of the loop of check_suite (lines 45-74): the findings added for entry
suite_entry(fs, suite_dir, entry, root, b, ord) ==
    LET skills_dir  == join(suite_dir, "skills")
        spec_dir    == join(skills_dir, entry)
        spec_skill  == join(spec_dir, "SKILL.md")
        coord       == estimate_tokens(fs, join(suite_dir, "SKILL.md"))
        spec_tokens == specialist_tokens(fs, skills_dir, entry)
        max_ref     == largest_reference(fs, get_reference_files(fs, spec_dir, ord), <<0, <<>>>>, root)
        total       == context_total(coord, spec_tokens, max_ref[1])
        rel_spec    == ceiling_key(suite_dir, spec_dir, root)
        max_tokens  == get_context_ceiling(rel_spec, b)
    IN  IF ~isfile(fs, spec_skill) THEN <<>>
        ELSE IF exceeds(total, max_tokens)
        THEN << [rel_spec |-> rel_spec, entry |-> entry, total |-> total,
                 ceiling |-> max_tokens, coordinator |-> coord, specialist |-> spec_tokens,
                 reference |-> max_ref[1], max_ref_name |-> max_ref[2]] >>
        ELSE <<>>

RECURSIVE suite_loop(_, _, _, _, _, _)
suite_loop(fs, suite_dir, entries, root, b, ord) ==
    IF entries = <<>> THEN <<>>
    ELSE suite_entry(fs, suite_dir, Head(entries), root, b, ord)
            \o suite_loop(fs, suite_dir, Tail(entries), root, b, ord)

check_suite(fs, suite_dir, root, b, ord) ==
    IF ~isfile(fs, join(suite_dir, "SKILL.md")) THEN <<>>
    ELSE IF ~isdir(fs, join(suite_dir, "skills")) THEN <<>>
    ELSE suite_loop(fs, suite_dir, sorted(listdir(fs, join(suite_dir, "skills"))), root, b, ord)

(***************************************************************************)
(* Context-load run: a suite r/s is given on disk and check_suite is       *)
(* called once for it (check_context_load.main line 113)                   *)
(***************************************************************************)
MaxFileWords == 1     \* files hold 0..MaxFileWords words

RepoRoot  == <<"r">>
SuiteDir  == <<"r", "s">>
SkillsDir == <<"r", "s", "skills">>
SpecNames == {"x", "y"}
SpecDir(e) == join(SkillsDir, e)

DirUniverse ==
    {SkillsDir} \cup {SpecDir(e) : e \in SpecNames}
                \cup {join(SpecDir("x"), "references")}

RefNames == {"r1.md", "r2.md", "n.txt"}

\* the markdown files of the suite
FileUniverse ==
    {join(SuiteDir, "SKILL.md")}
        \cup {join(SpecDir(e), "SKILL.md") : e \in SpecNames}
        \cup {join(join(SpecDir("x"), "references"), n) : n \in RefNames \cap MdNames}

\* a large file in references/ that is not markdown
NotesFile  == join(join(SpecDir("x"), "references"), "n.txt")
NotesWords == MaxFileWords + 3

SuiteKey   == PathStr(relpath(SuiteDir, RepoRoot))
SpecKey(e) == PathStr(relpath(SpecDir(e), RepoRoot))

GlobalCeilings == {4}
XCeilings      == {2}
SuiteCeilings  == {0}

Ceil(v) == [k \in {"max_simultaneous_tokens"} |-> v]

\* override tables: the key of specialist x absent, without a ceiling field
\* or with one; the key of the suite absent or with a ceiling field
CeilingOverrides ==
    { Merge(ox, os) :
        ox \in {EmptyDict} \cup {[k \in {SpecKey("x")} |-> e] :
                                    e \in {[j \in {"max_words"} |-> 1]} \cup {Ceil(v) : v \in XCeilings}},
        os \in {EmptyDict} \cup {[k \in {SuiteKey} |-> Ceil(v)] : v \in SuiteCeilings} }

CeilingTables ==
    { [flat |-> f, overrides |-> o] :
        f \in {EmptyDict} \cup {Ceil(v) : v \in GlobalCeilings}, o \in CeilingOverrides }

\* the trees: any set of the suite's directories that contains the parent of
\* each member, and any set of the suite's files inside existing directories
SuiteTrees ==
    { D \in SUBSET DirUniverse : \A d \in D : dirname(d) = SuiteDir \/ dirname(d) \in D }

SuiteInit ==
    /\ budgets \in CeilingTables
    /\ rel_path = <<>>
    /\ classification = "skip"
    /\ limits = <<None, None>>
    /\ \E D \in SuiteTrees :
          /\ dirs = {RepoRoot, SuiteDir} \cup D
          /\ \E F \in SUBSET { f \in FileUniverse : dirname(f) \in {SuiteDir} \cup D },
                notes \in SUBSET { f \in {NotesFile} : dirname(f) \in D } :
                \E w \in [F -> 0..MaxFileWords] :
                   words = [f \in F \cup notes |-> IF f \in notes THEN NotesWords ELSE w[f]]
    /\ errors = <<>>
    /\ repo_root = RepoRoot
    /\ filepath = <<>>
    /\ lines = <<>>
    /\ siblings = {}
    /\ specialist_name = ""
    /\ CeilIdle
    /\ BatchIdle
    /\ pc = "start"

\* check_suite(skill_dir, repo_root, budgets), with the directory listing
\* order the operating system happens to use
CheckSuite ==
    /\ pc = "start"
    /\ \E ord \in Perms(RefNames) :
          errors' = check_suite(FS, SuiteDir, repo_root, budgets, ord)
    /\ pc' = "done"
    /\ UNCHANGED <<budgetVars, isoVars, ceilVars, batchVars, dirs, words>>

SuiteNext == CheckSuite

SuiteSpec == SuiteInit /\ [][SuiteNext]_vars

(***************************************************************************)
(* Claims about the context-load check (checked under SuiteSpec)           *)
(***************************************************************************)
CoordDoc     == join(SuiteDir, "SKILL.md")
SpecDoc(e)   == join(SpecDir(e), "SKILL.md")
HasDoc(e)    == SpecDoc(e) \in DOMAIN words
CoordTokens  == IF CoordDoc \in DOMAIN words THEN CeilRatio(words[CoordDoc]) ELSE 0
SpecTokens(e) == IF HasDoc(e) THEN CeilRatio(words[SpecDoc(e)]) ELSE 0

\* the markdown files directly inside the references/ directory of e
OwnRefs(e) ==
    { f \in DOMAIN words : dirname(f) = join(SpecDir(e), "references") /\ EndsWithMd(basename(f)) }

SetMax(S) == IF S = {} THEN 0 ELSE CHOOSE m \in S : \A n \in S : n <= m
LargestRefTokens(e) == SetMax({CeilRatio(words[f]) : f \in OwnRefs(e)})

OwnTotal(e) == CoordTokens + SpecTokens(e) + LargestRefTokens(e)

\* the findings of the last check that name entry e
FindingsFor(e) == { i \in 1..Len(errors) : errors[i].entry = e }

\* C1: with a coordinator document present, check_suite emits exactly one
\* finding, naming the specialist, for every skills/ entry that has a skill
\* document and whose coordinator + specialist + largest-reference total is
\* strictly greater than the ceiling resolved for it, and none when the total
\* is at most the ceiling; a suite without coordinator document and entries
\* without a skill document contribute no findings.
C1_FindingIffTotalExceedsCeiling ==
    pc = "done" =>
      /\ CoordDoc \notin DOMAIN words => errors = <<>>
      /\ \A i \in 1..Len(errors) :
            /\ errors[i].entry \in SpecNames
            /\ errors[i].rel_spec = SpecKey(errors[i].entry)
      /\ CoordDoc \in DOMAIN words =>
            \A e \in SpecNames :
               Cardinality(FindingsFor(e)) =
                  IF HasDoc(e) /\ OwnTotal(e) > get_context_ceiling(SpecKey(e), budgets)
                  THEN 1 ELSE 0

\* C1 witness: one finding was emitted while another specialist with a skill
\* document sits exactly at its ceiling and is not reported.
C1_Witness ==
    /\ pc = "done"
    /\ Len(errors) = 1
    /\ \E e \in SpecNames :
          /\ HasDoc(e)
          /\ FindingsFor(e) = {}
          /\ OwnTotal(e) = get_context_ceiling(SpecKey(e), budgets)

\* whether check_suite, run on the tree fs with table b, reports e
Verdict(fs, b, e) ==
    LET found == check_suite(fs, SuiteDir, RepoRoot, b, sorted(RefNames))
    IN  \E i \in 1..Len(found) : found[i].entry = e

IsUnder(p, d) == Len(p) >= Len(d) /\ SubSeq(p, 1, Len(d)) = d

\* the tree reduced to what the verdict for e may depend on: the coordinator
\* document, the document of e and one largest reference of e
MinimalTree(e) ==
    LET largest == { f \in OwnRefs(e) : CeilRatio(words[f]) = LargestRefTokens(e) }
        keep    == ({CoordDoc, SpecDoc(e)} \cap DOMAIN words)
                      \cup (IF largest = {} THEN {} ELSE {CHOOSE f \in largest : TRUE})
    IN  [dirs  |-> { d \in dirs : \A o \in SpecNames \ {e} : ~IsUnder(d, SpecDir(o)) },
         words |-> [f \in keep |-> words[f]]]

\* the tree with every other specialist present and as large as the model allows
OthersEnlarged(e) ==
    LET others == SpecNames \ {e}
        big    == {SpecDoc(o) : o \in others}
                     \cup {join(join(SpecDir(o), "references"), "r1.md") : o \in others}
    IN  [dirs  |-> dirs \cup {SkillsDir} \cup {SpecDir(o) : o \in others}
                        \cup {join(SpecDir(o), "references") : o \in others},
         words |-> [f \in DOMAIN words \cup big |->
                       IF f \in big THEN MaxFileWords + 3 ELSE words[f]]]

\* C2: the verdict for a specialist depends only on the coordinator's tokens,
\* its own tokens, its own largest reference and its own ceiling: it is the
\* verdict of the tree stripped of every other specialist and of every
\* smaller reference, and the verdict of the tree with the other specialists
\* added and enlarged; the total compared is that of the one specialist and
\* its one largest reference, never a sum over several of them.
C2_VerdictDependsOnOwnInputsOnly ==
    pc = "done" =>
      /\ \A i \in 1..Len(errors) : errors[i].total = OwnTotal(errors[i].entry)
      /\ \A e \in SpecNames :
            /\ (FindingsFor(e) # {}) = Verdict(MinimalTree(e), budgets, e)
            /\ (HasDoc(e) /\ SkillsDir \in dirs) =>
                  (FindingsFor(e) # {}) = Verdict(OthersEnlarged(e), budgets, e)

\* C2 witness: both specialists have a skill document, one is not reported
\* although adding the other specialist's tokens, or its own second
\* reference, to its total would exceed its ceiling.
C2_Witness ==
    /\ pc = "done"
    /\ \E e, o \in SpecNames :
          /\ e # o /\ HasDoc(e) /\ HasDoc(o)
          /\ FindingsFor(e) = {}
          /\ Cardinality(OwnRefs(e)) = 2
          /\ \A f \in OwnRefs(e) : words[f] > 0
          /\ OwnTotal(e) + SpecTokens(o) > get_context_ceiling(SpecKey(e), budgets)
          /\ OwnTotal(e) + LargestRefTokens(e) > get_context_ceiling(SpecKey(e), budgets)

\* the table b without the override entries of the keys in ks
WithoutOverrides(b, ks) ==
    [flat |-> b.flat, overrides |-> [k \in DOMAIN b.overrides \ ks |-> b.overrides[k]]]

\* the ceiling of e read off the table: its own override field, else the global one
OwnCeiling(e) ==
    IF SpecKey(e) \in DOMAIN budgets.overrides
          /\ "max_simultaneous_tokens" \in DOMAIN budgets.overrides[SpecKey(e)]
    THEN budgets.overrides[SpecKey(e)]["max_simultaneous_tokens"]
    ELSE IF "max_simultaneous_tokens" \in DOMAIN budgets.flat
    THEN budgets.flat["max_simultaneous_tokens"]
    ELSE DEFAULT_CEILING

\* C3: the ceiling a specialist's total is compared against is the one
\* resolved for the specialist's own repository-relative directory: every
\* finding names that directory and carries that ceiling, and the override
\* entries of the suite path and of the other specialists change nothing.
C3_CeilingIsSpecialistsOwn ==
    pc = "done" =>
      /\ \A i \in 1..Len(errors) :
            /\ errors[i].rel_spec = SpecKey(errors[i].entry)
            /\ errors[i].ceiling = OwnCeiling(errors[i].entry)
      /\ \A e \in SpecNames :
            (FindingsFor(e) # {}) =
               Verdict(FS, WithoutOverrides(budgets, {SuiteKey} \cup {SpecKey(o) : o \in SpecNames \ {e}}), e)

\* C3 witness: the suite path has an override, x is reported against the
\* ceiling of its own override entry, and y, whose total exceeds both that
\* ceiling and the suite's, is not reported.
C3_Witness ==
    /\ pc = "done"
    /\ SuiteKey \in DOMAIN budgets.overrides
    /\ SpecKey("x") \in DOMAIN budgets.overrides
    /\ "max_simultaneous_tokens" \in DOMAIN budgets.overrides[SpecKey("x")]
    /\ \E i \in 1..Len(errors) :
          /\ errors[i].entry = "x"
          /\ errors[i].ceiling = budgets.overrides[SpecKey("x")]["max_simultaneous_tokens"]
          /\ HasDoc("y")
          /\ FindingsFor("y") = {}
          /\ OwnTotal("y") > errors[i].ceiling
          /\ OwnTotal("y") > budgets.overrides[SuiteKey]["max_simultaneous_tokens"]

(***************************************************************************)
(* _utils.py: is_excluded and classify_file                                *)
(***************************************************************************)
Range(f) == { f[i] : i \in DOMAIN f }

excluded_dirs == {"pipeline", "eval-cases", "node_modules", ".github", "templates"}

is_excluded(fp, root) == \E part \in Range(relpath(fp, root)) : part \in excluded_dirs

\* variant: the segment test for specialist comes before the probe for a
\* skills subdirectory
classify_file_segment_first(fs, fp, root) ==
    LET parts == relpath(fp, root)
    IN  IF is_excluded(fp, root) THEN "skip"
        ELSE IF ("references" \in Range(parts) \/ "shared-references" \in Range(parts))
                   /\ EndsWithMd(basename(fp))
        THEN "reference"
        ELSE IF basename(fp) # "SKILL.md" THEN "skip"
        ELSE IF "skills" \in Range(parts) THEN "specialist"
        ELSE IF isdir(fs, join(dirname(fp), "skills")) THEN "coordinator"
        ELSE "standalone"

\* variant: the reference test comes before the exclusion test
classify_file_reference_first(fs, fp, root) ==
    LET parts == relpath(fp, root)
    IN  IF ("references" \in Range(parts) \/ "shared-references" \in Range(parts))
              /\ EndsWithMd(basename(fp))
        THEN "reference"
        ELSE IF is_excluded(fp, root) THEN "skip"
        ELSE IF basename(fp) # "SKILL.md" THEN "skip"
        ELSE IF isdir(fs, join(dirname(fp), "skills")) THEN "coordinator"
        ELSE IF "skills" \in Range(parts) THEN "specialist"
        ELSE "standalone"

\* variant: the skill-document gate comes before the reference test
classify_file_gate_first(fs, fp, root) ==
    LET parts == relpath(fp, root)
    IN  IF is_excluded(fp, root) THEN "skip"
        ELSE IF basename(fp) # "SKILL.md" THEN "skip"
        ELSE IF ("references" \in Range(parts) \/ "shared-references" \in Range(parts))
                   /\ EndsWithMd(basename(fp))
        THEN "reference"
        ELSE IF isdir(fs, join(dirname(fp), "skills")) THEN "coordinator"
        ELSE IF "skills" \in Range(parts) THEN "specialist"
        ELSE "standalone"

\* variant: a specialist must have skills as the first segment below the root
classify_file_top_level_skills(fs, fp, root) ==
    LET parts == relpath(fp, root)
    IN  IF is_excluded(fp, root) THEN "skip"
        ELSE IF ("references" \in Range(parts) \/ "shared-references" \in Range(parts))
                   /\ EndsWithMd(basename(fp))
        THEN "reference"
        ELSE IF basename(fp) # "SKILL.md" THEN "skip"
        ELSE IF isdir(fs, join(dirname(fp), "skills")) THEN "coordinator"
        ELSE IF parts[1] = "skills" THEN "specialist"
        ELSE "standalone"

\* variant: a document that does not exist on disk is not classified
classify_file_existing_only(fs, fp, root) ==
    LET parts == relpath(fp, root)
    IN  IF ~isfile(fs, fp) THEN "missing"
        ELSE IF is_excluded(fp, root) THEN "skip"
        ELSE IF ("references" \in Range(parts) \/ "shared-references" \in Range(parts))
                   /\ EndsWithMd(basename(fp))
        THEN "reference"
        ELSE IF basename(fp) # "SKILL.md" THEN "skip"
        ELSE IF isdir(fs, join(dirname(fp), "skills")) THEN "coordinator"
        ELSE IF "skills" \in Range(parts) THEN "specialist"
        ELSE "standalone"

classify_file(fs, fp, root) ==
    LET parts == relpath(fp, root)
    IN  IF is_excluded(fp, root) THEN "skip"
        ELSE IF ("references" \in Range(parts) \/ "shared-references" \in Range(parts))
                   /\ EndsWithMd(basename(fp))
        THEN "reference"
        ELSE IF basename(fp) # "SKILL.md" THEN "skip"
        ELSE IF isdir(fs, join(dirname(fp), "skills")) THEN "coordinator"
        ELSE IF "skills" \in Range(parts) THEN "specialist"
        ELSE "standalone"

(***************************************************************************)
(* check_isolation.py                                                      *)
(***************************************************************************)
\* specialist_name when find_sibling_specialists returns None for it
NoName == ""

\* the characters of a directory name, as tokens
Tok(name) == IF name = "ab" THEN <<"a", "b">> ELSE <<name>>

\* the token sequence pat occurs in line at position i
StartsAt(line, i, pat) ==
    i >= 1 /\ i + Len(pat) - 1 <= Len(line) /\ SubSeq(line, i, i + Len(pat) - 1) = pat

\* Python `pat in line`
Contains(line, pat) == \E i \in 1..(Len(line) + 1) : StartsAt(line, i, pat)

\* find_sibling_specialists(filepath, repo_root): <<siblings, specialist_name>>;
\* the first "skills" segment of the absolute path decides both
find_sibling_specialists(fs, fp) ==
    LET idxs == { i \in 1..Len(fp) : fp[i] = "skills" }
    IN  IF idxs = {} THEN <<{}, NoName>>
        ELSE LET skills_idx    == CHOOSE i \in idxs : \A j \in idxs : i <= j
                 skills_parent == SubSeq(fp, 1, skills_idx)
             IN  IF skills_idx >= Len(fp) - 1 THEN <<{}, NoName>>
                 ELSE IF ~isdir(fs, skills_parent) THEN <<{}, fp[skills_idx + 1]>>
                 ELSE << { entry \in listdir(fs, skills_parent) :
                              isdir(fs, join(skills_parent, entry)) /\ entry # fp[skills_idx + 1] },
                         fp[skills_idx + 1] >>

\* the alternatives that may follow the sibling name in the regex of lines 77-79
RegexSuffixes == { <<"/">>, <<".md">>, <<"/", "SKILL.md">>, <<"/", "references", "/">> }

\* pattern.search(line) for r"\.\./?" + re.escape(sibling) + r"(/|\.md|/SKILL\.md|/references/)"
pattern_search(line, sibling) ==
    \E i \in 1..Len(line), slash \in {0, 1} :
        /\ line[i] = ".."
        /\ slash = 1 => StartsAt(line, i + 1, <<"/">>)
        /\ StartsAt(line, i + 1 + slash, Tok(sibling))
        /\ \E suf \in RegexSuffixes : StartsAt(line, i + 1 + slash + Len(Tok(sibling)), suf)

\* alt_patterns of lines 81-85
alt_patterns(sibling) ==
    << Tok(sibling) \o <<"/", "SKILL.md">>,
       Tok(sibling) \o <<"/", "references", "/">>,
       <<"skills", "/">> \o Tok(sibling) >>

\* variant: the substring detector runs also when the regex matched, once per literal
sibling_hits_both_detectors(line, sibling) ==
    (IF pattern_search(line, sibling) THEN 1 ELSE 0)
       + Cardinality({ k \in 1..Len(alt_patterns(sibling)) : Contains(line, alt_patterns(sibling)[k]) })

\* lines 86-102: the number of findings appended for one line and one sibling
sibling_hits(line, sibling) ==
    IF pattern_search(line, sibling) THEN 1
    ELSE IF \E k \in 1..Len(alt_patterns(sibling)) : Contains(line, alt_patterns(sibling)[k]) THEN 1
    ELSE 0

\* the findings of one line: the loop over the siblings (line 75), in iteration order sibs
RECURSIVE line_findings(_, _, _, _, _)
line_findings(rel, line_num, line, sibs, name) ==
    IF sibs = <<>> THEN <<>>
    ELSE [k \in 1..sibling_hits(line, Head(sibs)) |->
             [kind |-> "cross-reference", file |-> rel, line |-> line_num,
              source |-> name, target |-> Head(sibs)]]
            \o line_findings(rel, line_num, line, Tail(sibs), name)

\* the loop over the lines (line 74), from line number line_num on
RECURSIVE scan_lines(_, _, _, _, _)
scan_lines(rel, line_num, content, sibs, name) ==
    IF line_num > Len(content) THEN <<>>
    ELSE line_findings(rel, line_num, content[line_num], sibs, name)
            \o scan_lines(rel, line_num + 1, content, sibs, name)

\* check_file(filepath, repo_root): the errors returned, for a file whose
\* lines are content and for the iteration order sibs of the sibling set
check_file(fs, fp, root, content, sibs) ==
    LET found == find_sibling_specialists(fs, fp)
        rel   == relpath(fp, root)
    IN  IF is_excluded(fp, root) THEN <<>>
        ELSE IF classify_file(fs, fp, root) # "specialist" THEN <<>>
        ELSE IF found[1] = {} THEN <<>>
        ELSE IF ~isfile(fs, fp) \/ fs.words[fp] = Unreadable
        THEN << [kind |-> "unreadable", file |-> rel, line |-> 0, source |-> NoName, target |-> NoName] >>
        ELSE scan_lines(rel, 1, content, sibs, found[2])

(***************************************************************************)
(* Isolation run: a tree is given, the document is written line by line,   *)
(* then check_file is called once for it (check_isolation.main line 117)   *)
(***************************************************************************)
MaxLines == 2     \* the document has at most MaxLines lines

IsoRoots == { <<"r">>, <<"skills", "r">> }

\* all leading parts of the path p, p included
Prefixes(p) == { SubSeq(p, 1, n) : n \in 1..Len(p) }

IsoSkills(root) == root \o <<"s", "skills">>
IsoSpecA(root)  == root \o <<"s", "skills", "a">>
Nested(root)    == root \o <<"s", "skills", "a", "skills">>

\* the specialist directories of the suite inside a: none, b alone, b and ab
NestedOptions == { {}, {"b"}, {"b", "ab"} }

\* the trees: specialist a under the suite s, with the sibling directories
\* sibs next to it and, when nested is not empty, a suite of its own inside a
\* with the specialist directories nested
IsoTree(root, sibs, nested) ==
    Prefixes(IsoSpecA(root))
       \cup { join(IsoSkills(root), n) : n \in sibs }
       \cup (IF nested # {} THEN {Nested(root)} \cup { join(Nested(root), n) : n \in nested } ELSE {})

IsoFiles(root, nested) ==
    IF nested # {}
    THEN { join(IsoSpecA(root), "SKILL.md"), Nested(root) \o <<"b", "SKILL.md">> }
    ELSE { join(IsoSpecA(root), "SKILL.md"), root \o <<"s", "SKILL.md">> }

\* the lines a document is written from
LineSet ==
    { pre \o Tok(n) \o post :
        pre  \in { <<>>, <<"..", "/">>, <<"skills", "/">> },
        n    \in { "b", "ab" },
        post \in { <<>>, <<".md">>, <<"/", "SKILL.md">>, <<"/", "references", "/">> } }

IsoInit ==
    /\ budgets = [flat |-> EmptyDict, overrides |-> EmptyDict]
    /\ rel_path = <<>>
    /\ classification = "skip"
    /\ limits = <<None, None>>
    /\ repo_root \in IsoRoots
    /\ \E sibs \in { {}, {"b"}, {"b", "ab"} }, nested \in NestedOptions :
          /\ dirs = IsoTree(repo_root, sibs, nested)
          /\ filepath \in IsoFiles(repo_root, nested)
    /\ words = [f \in {filepath} |-> 0]
    /\ lines = <<>>
    /\ errors = <<>>
    /\ siblings = {}
    /\ specialist_name = NoName
    /\ CeilIdle
    /\ BatchIdle
    /\ pc = "edit"

\* a line is appended to the document (every line of LineSet is one word)
AppendLine(l) ==
    /\ pc = "edit"
    /\ Len(lines) < MaxLines
    /\ lines' = Append(lines, l)
    /\ words' = [f \in {filepath} |-> Len(lines) + 1]
    /\ UNCHANGED <<budgetVars, ceilVars, batchVars, dirs, errors, repo_root, filepath, siblings,
                   specialist_name, pc>>

\* errors, warnings = check_file(filepath, repo_root); siblings and
\* specialist_name are the locals assigned at line 61, the set is iterated
\* in an arbitrary order
CheckFile ==
    /\ pc = "edit"
    /\ LET specialist == ~is_excluded(filepath, repo_root)
                            /\ classify_file(FS, filepath, repo_root) = "specialist"
           found      == find_sibling_specialists(FS, filepath)
       IN  /\ siblings' = IF specialist THEN found[1] ELSE {}
           /\ specialist_name' = IF specialist THEN found[2] ELSE NoName
           /\ \E sibs \in Perms(found[1]) :
                 errors' = check_file(FS, filepath, repo_root, lines, sibs)
    /\ pc' = "done"
    /\ UNCHANGED <<budgetVars, ceilVars, batchVars, dirs, words, repo_root, filepath, lines>>

IsoNext ==
    \/ \E l \in LineSet : AppendLine(l)
    \/ CheckFile

IsoSpec == IsoInit /\ [][IsoNext]_vars

(***************************************************************************)
(* Claims about the isolation check (checked under IsoSpec)                *)
(***************************************************************************)
\* the findings of the last check for line i that name sibling s
IsoFindings(i, s) ==
    { k \in 1..Len(errors) :
         errors[k].kind = "cross-reference" /\ errors[k].line = i /\ errors[k].target = s }

\* the line holds ../S/, ../S.md, ../S/SKILL.md or ../S/references/
PathPattern(line, s) ==
    \/ Contains(line, <<"..", "/">> \o Tok(s) \o <<"/">>)
    \/ Contains(line, <<"..", "/">> \o Tok(s) \o <<".md">>)
    \/ Contains(line, <<"..", "/">> \o Tok(s) \o <<"/", "SKILL.md">>)
    \/ Contains(line, <<"..", "/">> \o Tok(s) \o <<"/", "references", "/">>)

\* the literals S/SKILL.md, S/references/ and skills/S that the line holds
LiteralsIn(line, s) ==
    { lit \in { Tok(s) \o <<"/", "SKILL.md">>, Tok(s) \o <<"/", "references", "/">>,
                <<"skills", "/">> \o Tok(s) } : Contains(line, lit) }

\* C4: for the specialist document scanned and every sibling name S of the
\* sibling set, a line that matches the ../S path pattern or holds one of
\* the literals S/SKILL.md, S/references/, skills/S has a finding that
\* carries the file, the 1-based line number, the source specialist and S,
\* and no (line, sibling) pair has more than one finding.
C4_OneFindingPerLineAndSibling ==
    pc = "done" =>
      /\ \A k \in 1..Len(errors) :
            errors[k].kind = "cross-reference" =>
               errors[k].line \in 1..Len(lines) /\ errors[k].target \in siblings
      /\ \A i \in 1..Len(lines), s \in siblings :
            /\ Cardinality(IsoFindings(i, s)) <= 1
            /\ (PathPattern(lines[i], s) \/ LiteralsIn(lines[i], s) # {}) =>
                  \E k \in IsoFindings(i, s) :
                     /\ errors[k].file = relpath(filepath, repo_root)
                     /\ errors[k].source = specialist_name

\* C4 witness: line 1 holds two of the literals for a sibling, line 2 matches
\* both the path pattern and a literal for a sibling, and each of the two
\* (line, sibling) pairs has exactly one finding.
C4_Witness ==
    /\ pc = "done"
    /\ Len(lines) = 2
    /\ \E s, t \in siblings :
          /\ Cardinality(LiteralsIn(lines[1], s)) = 2
          /\ Cardinality(IsoFindings(1, s)) = 1
          /\ PathPattern(lines[2], t)
          /\ LiteralsIn(lines[2], t) # {}
          /\ Cardinality(IsoFindings(2, t)) = 1

\* the directory names next to the specialist's own directory
OwnSiblings ==
    LET own    == dirname(filepath)
        parent == dirname(own)
    IN  { e \in listdir(FS, parent) : join(parent, e) \in dirs /\ e # basename(own) }

\* C5: for every path classified as specialist, the sibling set is exactly
\* the set of directory names under the skills/ directory that directly
\* contains the specialist's own directory, minus its own name, and the
\* source specialist is its own directory name, also when an earlier segment
\* of the path is named skills.
C5_SiblingsOfOwnSkillsDir ==
    (pc = "done" /\ classify_file(FS, filepath, repo_root) = "specialist") =>
        /\ siblings = OwnSiblings
        /\ specialist_name = basename(dirname(filepath))

(***************************************************************************)
(* Ceiling resolution run: a key and a table are drawn in CeilingInit, one *)
(* call of get_context_ceiling (check_context_load.check_suite line 63)    *)
(***************************************************************************)
MaxTrailing == 2     \* a key ends in 0..MaxTrailing separators
MaxCeiling  == 1     \* override ceilings range over 0..MaxCeiling
GlobalCeiling == 7

\* a segment sequence written with the separator sep, followed by n separators
RECURSIVE Repeat(_, _)
Repeat(tok, n) == IF n = 0 THEN <<>> ELSE <<tok>> \o Repeat(tok, n - 1)

WithSeparator(str, sep) == [i \in 1..Len(str) |-> IF str[i] = "/" THEN sep ELSE str[i]]

ResolverKeys ==
    { WithSeparator(PathStr(segs), sep) \o Repeat(sep, n) :
        segs \in { <<"s", "skills", "x">>, <<"s">>, <<"c">> },
        sep  \in { "/", "\\" },
        n    \in 0..MaxTrailing }

\* override entries: without a ceiling field, or with one
ResolverEntries ==
    { [j \in {"max_words"} |-> 1] } \cup { Ceil(v) : v \in 0..MaxCeiling }

ResolverTables ==
    { [flat |-> f, overrides |-> Merge(ox, os)] :
        f  \in { EmptyDict, Ceil(GlobalCeiling), [j \in {"specialist_max_words"} |-> GlobalCeiling] },
        ox \in { EmptyDict } \cup { [k \in {SpecKey("x")} |-> e] : e \in ResolverEntries },
        os \in { EmptyDict } \cup { [k \in {SuiteKey} |-> e] : e \in ResolverEntries } }

CeilingInit ==
    /\ budgets \in ResolverTables
    /\ rel_path = <<>>
    /\ classification = "skip"
    /\ limits = <<None, None>>
    /\ dirs = {}
    /\ words = EmptyDict
    /\ errors = <<>>
    /\ repo_root = <<>>
    /\ filepath = <<>>
    /\ lines = <<>>
    /\ siblings = {}
    /\ specialist_name = ""
    /\ key_arg \in ResolverKeys
    /\ ceiling = None
    /\ BatchIdle
    /\ pc = "start"

\* max_tokens = get_context_ceiling(rel_spec, repo_root, budgets)
ResolveCeiling ==
    /\ pc = "start"
    /\ ceiling' = get_context_ceiling(key_arg, budgets)
    /\ pc' = "done"
    /\ UNCHANGED <<budgetVars, isoVars, batchVars, dirs, words, errors, key_arg>>

CeilingNext == ResolveCeiling

CeilingSpec == CeilingInit /\ [][CeilingNext]_vars

(***************************************************************************)
(* Claims about ceiling resolution (checked under CeilingSpec)             *)
(***************************************************************************)
\* the ceiling read off the table for the looked-up key k: the field of k's
\* override entry, else the global field, else 5500
CeilingFor(k) ==
    IF k \in DOMAIN budgets.overrides /\ "max_simultaneous_tokens" \in DOMAIN budgets.overrides[k]
    THEN budgets.overrides[k]["max_simultaneous_tokens"]
    ELSE IF "max_simultaneous_tokens" \in DOMAIN budgets.flat
    THEN budgets.flat["max_simultaneous_tokens"]
    ELSE 5500

\* C11 as stated: the key is looked up with its trailing slashes stripped;
\* the result is the override's max_simultaneous_tokens when that key has an
\* entry carrying the field, else the global max_simultaneous_tokens, else
\* 5500; an entry without the field changes nothing.
C11_CeilingOfStrippedKey ==
    pc = "done" =>
      /\ ceiling = CeilingFor(RStripSlash(key_arg))
      /\ \A k \in DOMAIN budgets.overrides :
            "max_simultaneous_tokens" \notin DOMAIN budgets.overrides[k]
               => ceiling = get_context_ceiling(key_arg, WithoutOverrides(budgets, {k}))

\* C11 amended: the same, for the key with backslashes replaced by forward
\* slashes and then trailing slashes stripped.
C11_CeilingOfNormalizedKey ==
    pc = "done" =>
      /\ ceiling = CeilingFor(RStripSlash(ReplaceBackslash(key_arg)))
      /\ \A k \in DOMAIN budgets.overrides :
            "max_simultaneous_tokens" \notin DOMAIN budgets.overrides[k]
               => ceiling = get_context_ceiling(key_arg, WithoutOverrides(budgets, {k}))

\* C11 witness: a key written with backslashes and a trailing separator
\* resolves to the ceiling of its override entry although the table has a
\* different global ceiling.
C11_Witness ==
    /\ pc = "done"
    /\ \E i \in 1..Len(key_arg) : key_arg[i] = "\\"
    /\ Len(key_arg) > Len(RStripSlash(ReplaceBackslash(key_arg)))
    /\ RStripSlash(ReplaceBackslash(key_arg)) = SpecKey("x")
    /\ SpecKey("x") \in DOMAIN budgets.overrides
    /\ "max_simultaneous_tokens" \in DOMAIN budgets.overrides[SpecKey("x")]
    /\ "max_simultaneous_tokens" \in DOMAIN budgets.flat
    /\ ceiling # budgets.flat["max_simultaneous_tokens"]
    /\ ceiling = budgets.overrides[SpecKey("x")]["max_simultaneous_tokens"]

(***************************************************************************)
(* Classification run: a tree is given, classify_file is called for one    *)
(* path after another (check_token_budget.check_file line 19,              *)
(* check_isolation.check_file line 56); documents are created and removed  *)
(* between the calls                                                       *)
(***************************************************************************)
\* the directories of every tree, relative to the repository root
ClassifyBase ==
    { <<"s">>, <<"s", "skills">>, <<"s", "skills", "x">>, <<"s", "skills", "y">>,
      <<"s", "skills", "templates">>, <<"s", "skills", "references">>,
      <<"s", "references">>,
      <<"templates">>, <<"templates", "s">>, <<"templates", "s", "skills">>,
      <<"templates", "s", "skills", "x">>,
      <<"shared-references">>, <<"shared-references", "s">>,
      <<"shared-references", "s", "skills">>, <<"shared-references", "s", "skills", "x">>,
      <<"shared-references", "templates">>,
      <<"x">> }

\* directories a tree may have in addition: a suite nested in specialist x,
\* a skills directory next to the standalone document
ClassifyOptions ==
    { {}, { <<"s", "skills", "x", "skills">>, <<"s", "skills", "x", "skills", "y">> },
      { <<"x", "skills">> },
      { <<"s", "skills", "x", "skills">>, <<"s", "skills", "x", "skills", "y">>, <<"x", "skills">> } }

ClassifyNames == {"SKILL.md", "r1.md", "n.txt"}

\* the directories in which a skill document is created or removed
DocDirs ==
    { <<"s">>, <<"s", "skills", "x">>, <<"s", "skills", "templates">>,
      <<"s", "skills", "references">>, <<"s", "skills", "x", "skills", "y">> }

ClassifyInit ==
    /\ budgets = [flat |-> EmptyDict, overrides |-> EmptyDict]
    /\ rel_path = <<>>
    /\ classification = ""
    /\ limits = <<None, None>>
    /\ repo_root \in IsoRoots
    /\ \E opt \in ClassifyOptions :
          dirs = Prefixes(repo_root) \cup { repo_root \o d : d \in ClassifyBase \cup opt }
    /\ words = EmptyDict
    /\ errors = <<>>
    /\ filepath = <<>>
    /\ lines = <<>>
    /\ siblings = {}
    /\ specialist_name = ""
    /\ CeilIdle
    /\ BatchIdle
    /\ pc = "start"

\* a skill document is created
CreateDoc(d) ==
    /\ isdir(FS, repo_root \o d)
    /\ ~isfile(FS, join(repo_root \o d, "SKILL.md"))
    /\ words' = [f \in DOMAIN words \cup {join(repo_root \o d, "SKILL.md")} |->
                    IF f \in DOMAIN words THEN words[f] ELSE 0]
    /\ UNCHANGED <<budgetVars, isoVars, ceilVars, batchVars, dirs, errors, pc>>

\* a skill document is removed
RemoveDoc(d) ==
    /\ isfile(FS, join(repo_root \o d, "SKILL.md"))
    /\ words' = [f \in DOMAIN words \ {join(repo_root \o d, "SKILL.md")} |-> words[f]]
    /\ UNCHANGED <<budgetVars, isoVars, ceilVars, batchVars, dirs, errors, pc>>

\* classification = classify_file(filepath, repo_root)
Classify(fp) ==
    /\ filepath' = fp
    /\ classification' = classify_file(FS, fp, repo_root)
    /\ pc' = "done"
    /\ UNCHANGED <<budgets, rel_path, limits, dirs, words, errors, repo_root, lines,
                   siblings, specialist_name, ceilVars, batchVars>>

ClassifyNext ==
    \/ \E d \in DocDirs : CreateDoc(d)
    \/ \E d \in DocDirs : RemoveDoc(d)
    \/ \E d \in dirs, n \in ClassifyNames : Classify(join(d, n))

ClassifySpec == ClassifyInit /\ [][ClassifyNext]_vars

(***************************************************************************)
(* Claims about classification (checked under ClassifySpec)                *)
(***************************************************************************)
\* the path of the last call, relative to the repository root
Parts == relpath(filepath, repo_root)

HasSegment(name) == \E i \in 1..Len(Parts) : Parts[i] = name

\* some segment is in the excluded-directory set
UnderExcluded ==
    \E i \in 1..Len(Parts) :
        Parts[i] \in {"pipeline", "eval-cases", "node_modules", ".github", "templates"}

\* the path has a references or shared-references segment and ends in .md
ReferencePath ==
    /\ HasSegment("references") \/ HasSegment("shared-references")
    /\ basename(filepath) \in {"SKILL.md", "r1.md"}

IsSkillDoc   == basename(filepath) = "SKILL.md"
SkillsNextTo == join(dirname(filepath), "skills") \in dirs

\* the path is <suite>/skills/<child>/SKILL.md
IsChildDoc ==
    /\ Len(filepath) >= Len(repo_root) + 3
    /\ IsSkillDoc
    /\ filepath[Len(filepath) - 2] = "skills"

\* the suite directory of a child document and its skill document
SuiteOf(fp)    == SubSeq(fp, 1, Len(fp) - 3)
SuiteDocOf(fp) == join(SuiteOf(fp), "SKILL.md")

\* C12: for a path that is neither excluded nor a reference, a skill document
\* with a skills subdirectory next to it is coordinator, one with a skills
\* segment and no such subdirectory is specialist, one with neither is
\* standalone, any other basename is skip; a specialist document and the
\* coordinator document of the suite it is nested in classify differently.
C12_RolesOfSkillDocuments ==
    (pc = "done" /\ ~UnderExcluded /\ ~ReferencePath) =>
      /\ (IsSkillDoc /\ SkillsNextTo) => classification = "coordinator"
      /\ (IsSkillDoc /\ ~SkillsNextTo /\ HasSegment("skills")) => classification = "specialist"
      /\ (IsSkillDoc /\ ~SkillsNextTo /\ ~HasSegment("skills")) => classification = "standalone"
      /\ ~IsSkillDoc => classification = "skip"
      /\ (IsChildDoc /\ ~SkillsNextTo)
            => /\ classify_file(FS, SuiteDocOf(filepath), repo_root) = "coordinator"
               /\ classification # "coordinator"

\* C12 witness: a skill document below a skills segment that has a skills
\* subdirectory of its own is classified coordinator.
C12_Witness ==
    /\ pc = "done"
    /\ IsChildDoc
    /\ SkillsNextTo
    /\ ~UnderExcluded /\ ~ReferencePath
    /\ classification = "coordinator"

\* C13: a path with a segment in the excluded-directory set classifies as
\* skip, whatever its file name and its other segments.
C13_ExcludedIsSkip ==
    (pc = "done" /\ UnderExcluded) => classification = "skip"

\* C13 witness: a file named like a skill document, under shared-references
\* and under an excluded directory, is classified skip.
C13_Witness ==
    /\ pc = "done"
    /\ UnderExcluded
    /\ ReferencePath
    /\ IsSkillDoc
    /\ classification = "skip"

\* C14: a non-excluded path with a references or shared-references segment
\* classifies as reference when it ends in .md, whatever its basename and
\* whether or not there is a skills subdirectory or segment; when it does
\* not end in .md it goes on to the later steps, which make it skip.
C14_ReferenceBeforeSkillDocGate ==
    (pc = "done" /\ ~UnderExcluded
        /\ (HasSegment("references") \/ HasSegment("shared-references"))) =>
      /\ basename(filepath) \in {"SKILL.md", "r1.md"} => classification = "reference"
      /\ basename(filepath) \notin {"SKILL.md", "r1.md"} => classification = "skip"

\* C14 witness: a file named like a skill document, under shared-references,
\* with a skills subdirectory next to it, is classified reference.
C14_Witness ==
    /\ pc = "done"
    /\ ~UnderExcluded
    /\ HasSegment("shared-references")
    /\ IsSkillDoc
    /\ SkillsNextTo
    /\ classification = "reference"

\* the last call was for the skill document of an immediate child of the
\* skills directory of a coordinator directory, and both documents exist
ChildOfCoordinatorDir ==
    /\ pc = "done"
    /\ IsChildDoc
    /\ isfile(FS, filepath)
    /\ isfile(FS, SuiteDocOf(filepath))
    /\ isdir(FS, join(SuiteOf(filepath), "skills"))

\* C15 as stated: the skill document of every immediate child of the skills
\* directory of a coordinator directory is classified specialist.
C15_ChildOfCoordinatorIsSpecialist ==
    ChildOfCoordinatorDir => classification = "specialist"

\* C15 amended: the same, for a child document whose path has no excluded
\* segment and no references or shared-references segment and whose
\* directory has no skills subdirectory of its own.
C15_PlainChildOfCoordinatorIsSpecialist ==
    (/\ ChildOfCoordinatorDir
     /\ ~UnderExcluded
     /\ ~HasSegment("references") /\ ~HasSegment("shared-references")
     /\ ~SkillsNextTo)
    => classification = "specialist"

\* C15 witness: the document of a child of a nested suite (two skills
\* segments in its path) is classified specialist.
C15_Witness ==
    /\ ChildOfCoordinatorDir
    /\ ~UnderExcluded
    /\ ~SkillsNextTo
    /\ Cardinality({ i \in 1..Len(Parts) : Parts[i] = "skills" }) = 2
    /\ classification = "specialist"

\* C16: every call returns one of the five roles, and a call for the path of
\* the previous call, with the same root and the same directories, returns
\* the role the previous call returned, whatever happened to the files in
\* between.
C16_ClassificationTotalAndPure ==
    /\ [](pc = "done" =>
             classification \in {"coordinator", "specialist", "standalone", "reference", "skip"})
    /\ [][(pc = "done" /\ filepath' = filepath /\ repo_root' = repo_root /\ dirs' = dirs)
             => classification' = classification]_vars

\* C16 witness: a skill document that is not on disk, in a tree where other
\* documents are, is classified coordinator.
C16_Witness ==
    /\ pc = "done"
    /\ ~isfile(FS, filepath)
    /\ DOMAIN words # {}
    /\ classification = "coordinator"

(***************************************************************************)
(* Documents as lines of tokens; " " is the token between two words        *)
(***************************************************************************)
\* len(line.split()): the number of maximal runs of tokens other than " "
line_words(line) ==
    Cardinality({ i \in 1..Len(line) : line[i] # " " /\ (i = 1 \/ line[i - 1] = " ") })

\* len(text.split()) for the text with the given lines
RECURSIVE text_words(_)
text_words(content) ==
    IF content = <<>> THEN 0 ELSE line_words(Head(content)) + text_words(Tail(content))

\* str.lower() on the tokens of the model
Lower(tok) ==
    IF tok = "Basically" THEN "basically"
    ELSE IF tok = "Procedure" THEN "procedure"
    ELSE tok

LowerLine(line) == [i \in 1..Len(line) |-> Lower(line[i])]

\* str.strip() on a token sequence
RECURSIVE Strip(_)
Strip(line) ==
    IF Len(line) > 0 /\ line[1] = " " THEN Strip(Tail(line))
    ELSE IF Len(line) > 0 /\ line[Len(line)] = " " THEN Strip(SubSeq(line, 1, Len(line) - 1))
    ELSE line

(***************************************************************************)
(* check_token_budget.py                                                   *)
(***************************************************************************)
WARN_THRESHOLD_NUM == 9
WARN_THRESHOLD_DEN == 10

\* check_file(filepath, repo_root, budgets): the warnings returned
budget_check_file(fs, fp, root, b) ==
    LET cls        == classify_file(fs, fp, root)
        rel        == PathStr(relpath(fp, root))
        word_count == fs.words[fp]
        lim        == get_budget_limits(rel, cls, b)
        max_words  == lim[1]
    IN  IF cls = "skip" THEN <<>>
        ELSE IF ~isfile(fs, fp) \/ fs.words[fp] = Unreadable
        THEN << [kind |-> "unreadable", file |-> rel] >>
        ELSE IF max_words = None THEN <<>>
        ELSE IF max_words > 0 /\ word_count > max_words
        THEN << [kind |-> "WARNING", file |-> rel, role |-> cls, words |-> word_count,
                 tokens |-> CeilRatio(word_count), target |-> max_words,
                 overage |-> word_count - max_words] >>
        ELSE IF max_words > 0 /\ word_count * WARN_THRESHOLD_DEN > WARN_THRESHOLD_NUM * max_words
        THEN << [kind |-> "INFO", file |-> rel, role |-> cls, words |-> word_count,
                 tokens |-> CeilRatio(word_count), target |-> max_words,
                 headroom |-> max_words - word_count] >>
        ELSE <<>>

(***************************************************************************)
(* check_prose.py                                                          *)
(***************************************************************************)
PROHIBITED_PATTERNS ==
    << <<"it", " ", "is", " ", "important", " ", "to">>,
       <<"it's", " ", "important", " ", "to">>,
       <<"you", " ", "should">>,
       <<"you", " ", "may", " ", "want", " ", "to">>,
       <<"you", " ", "might", " ", "want", " ", "to">>,
       <<"this", " ", "is", " ", "because">>,
       <<"the", " ", "reason", " ", "for", " ", "this">>,
       <<"basically">>,
       <<"essentially">>,
       <<"fundamentally">>,
       <<"in", " ", "other", " ", "words">>,
       <<"in", " ", "order", " ", "to">>,
       <<"keep", " ", "in", " ", "mind">>,
       <<"please", " ", "note", " ", "that">>,
       <<"let's">>,
       <<"we", " ", "can">>,
       <<"we", " ", "should">>,
       <<"feel", " ", "free", " ", "to">>,
       <<"don't", " ", "hesitate", " ", "to">> >>

EXCLUDED_SECTIONS ==
    { <<"purpose">>, <<"context">>, <<"background">>, <<"notes">>, <<"description">>,
      <<"overview">>, <<"when", " ", "to", " ", "use">>, <<"don't", " ", "use">> }

\* variant: a heading of any depth from two on
is_heading_any_level(line) ==
    LET stripped == Strip(line)
    IN  Len(stripped) >= 3 /\ stripped[1] \in {"##", "###"} /\ stripped[2] = " "

\* re.match(r"^##\s+", stripped)
is_heading(line) ==
    LET stripped == Strip(line)
    IN  Len(stripped) >= 3 /\ stripped[1] = "##" /\ stripped[2] = " "

\* re.sub(r"^##\s+", "", stripped).strip().lower()
section_name(line) == LowerLine(Strip(SubSeq(Strip(line), 2, Len(Strip(line)))))

\* find_procedure_sections(text): the ranges (start, end) of 0-based line
\* indices, computed by the loop of lines 48-57 from index i on
RECURSIVE procedure_ranges(_, _, _, _, _)
procedure_ranges(content, i, in_procedure, start, ranges) ==
    IF i >= Len(content)
    THEN IF in_procedure THEN Append(ranges, <<start, Len(content)>>) ELSE ranges
    ELSE IF is_heading(content[i + 1])
    THEN LET name   == section_name(content[i + 1])
             closed == IF in_procedure THEN Append(ranges, <<start, i>>) ELSE ranges
             opens  == Contains(name, <<"procedure">>) /\ name \notin EXCLUDED_SECTIONS
         IN  procedure_ranges(content, i + 1, opens, IF opens THEN i + 1 ELSE start, closed)
    ELSE procedure_ranges(content, i + 1, in_procedure, start, ranges)

find_procedure_sections(content) == procedure_ranges(content, 0, FALSE, 0, <<>>)

\* the warnings of one line: the loop over the compiled patterns (line 93)
RECURSIVE prose_line(_, _, _, _)
prose_line(rel, line_idx, line, k) ==
    IF k > Len(PROHIBITED_PATTERNS) THEN <<>>
    ELSE (IF Contains(LowerLine(line), PROHIBITED_PATTERNS[k])
          THEN << [kind |-> "prose", file |-> rel, line |-> line_idx + 1, pattern |-> k] >>
          ELSE <<>>)
            \o prose_line(rel, line_idx, line, k + 1)

\* the loop over the lines of one range (line 91)
RECURSIVE prose_range(_, _, _, _)
prose_range(rel, content, line_idx, end) ==
    IF line_idx >= end THEN <<>>
    ELSE prose_line(rel, line_idx, content[line_idx + 1], 1)
            \o prose_range(rel, content, line_idx + 1, end)

\* the loop over the ranges (line 90)
RECURSIVE prose_ranges(_, _, _)
prose_ranges(rel, content, ranges) ==
    IF ranges = <<>> THEN <<>>
    ELSE LET end == IF Head(ranges)[2] < Len(content) THEN Head(ranges)[2] ELSE Len(content)
         IN  prose_range(rel, content, Head(ranges)[1], end)
                \o prose_ranges(rel, content, Tail(ranges))

\* check_file(filepath, repo_root): the warnings returned, for a file whose
\* lines are content
prose_check_file(fs, fp, root, content) ==
    IF is_excluded(fp, root) THEN <<>>
    ELSE IF basename(fp) # "SKILL.md" THEN <<>>
    ELSE IF ~isfile(fs, fp) \/ fs.words[fp] = Unreadable THEN <<>>
    ELSE prose_ranges(PathStr(relpath(fp, root)), content, find_procedure_sections(content))

(***************************************************************************)
(* check_context_load.main: from an input path to the suite to check       *)
(***************************************************************************)
\* the loop of lines 101-105: the nearest directory from candidate upwards,
\* below the repository root, that holds a SKILL.md
RECURSIVE walk_up(_, _, _)
walk_up(fs, candidate, root) ==
    IF candidate = root \/ candidate = dirname(candidate) THEN [found |-> FALSE, dir |-> <<>>]
    ELSE IF isfile(fs, join(candidate, "SKILL.md")) THEN [found |-> TRUE, dir |-> candidate]
    ELSE walk_up(fs, dirname(candidate), root)

\* variant: the walk passes the directories that are not coordinators
RECURSIVE walk_up_to_suite(_, _, _)
walk_up_to_suite(fs, candidate, root) ==
    IF candidate = root \/ candidate = dirname(candidate) THEN [found |-> FALSE, dir |-> <<>>]
    ELSE IF isfile(fs, join(candidate, "SKILL.md")) /\ isdir(fs, join(candidate, "skills"))
    THEN [found |-> TRUE, dir |-> candidate]
    ELSE walk_up_to_suite(fs, dirname(candidate), root)

find_skill_dir_of_suite(fs, fp, root) == walk_up_to_suite(fs, dirname(fp), root)

\* lines 94-105: skill_dir for an input path (found = FALSE stands for None)
find_skill_dir(fs, fp, root) ==
    IF basename(fp) = "SKILL.md" THEN [found |-> TRUE, dir |-> dirname(fp)]
    ELSE walk_up(fs, dirname(fp), root)

(***************************************************************************)
(* main() of the hooks                                                     *)
(***************************************************************************)
HardHooks     == {"isolation", "context_load"}
AdvisoryHooks == {"token_budget", "prose"}

\* variant: a file's findings replace the findings collected so far
extend_overwrite(all, more) == more

\* list.extend
extend(all, more) == all \o more

\* variant: any output, warnings included, fails the run
exit_status_any_output(h, errs, warns) == IF errs # <<>> \/ warns # <<>> THEN 1 ELSE 0

\* the argument of the final sys.exit: 1 if all_errors else 0 in the hooks of
\* the HARD tier, 0 in the advisory ones
exit_status(h, errs, warns) ==
    IF h \in AdvisoryHooks THEN 0
    ELSE IF errs # <<>> THEN 1 ELSE 0

(***************************************************************************)
(* Batch run: main() of one hook is run on a list of input paths; one step *)
(* per iteration of its loop, then the final sys.exit                      *)
(***************************************************************************)
MaxBatch == 2     \* sys.argv[1:] has at most MaxBatch paths

BatchCeiling == 5
BatchWords   == 1

BatchCoord == <<"r", "s", "SKILL.md">>
BatchSpecA == <<"r", "s", "skills", "a", "SKILL.md">>
BatchSpecB == <<"r", "s", "skills", "b", "SKILL.md">>
BatchRef   == <<"r", "s", "skills", "a", "references", "r1.md">>
BatchSolo  == <<"r", "x", "SKILL.md">>
\* a file next to the coordinator document, and a file outside the repository
BatchNote    == <<"r", "s", "n.txt">>
BatchOutside == <<"o", "n.txt">>

BatchFiles == {BatchCoord, BatchSpecA, BatchSpecB, BatchRef, BatchSolo, BatchNote, BatchOutside}

BatchDirs ==
    UNION { Prefixes(dirname(f)) : f \in BatchFiles }

\* the texts the documents are drawn from
TextClean == << <<"ok">> >>
TextLong  == << <<"w", " ", "w", " ", "w">> >>
TextToB   == << <<"..", "/", "b", "/", "SKILL.md">>,
                <<"##", " ", "Procedure">>,
                <<"Basically", " ", "skills", "/", "b">> >>
TextToA   == << <<"skills", "/", "a">> >>
TextProse == << <<"##", " ", "procedure">>, <<"you", " ", "should">> >>

\* what a file of the tree can be: one of the texts, "unreadable" (it exists
\* and cannot be read or decoded), or "missing"
TextNamed(n) ==
    CASE n = "clean" -> TextClean
      [] n = "long"  -> TextLong
      [] n = "to_b"  -> TextToB
      [] n = "to_a"  -> TextToA
      [] n = "prose" -> TextProse

BatchTrees ==
    { c \in [BatchFiles -> {"clean", "long", "to_b", "to_a", "prose", "unreadable", "missing"}] :
        /\ c[BatchCoord] \in {"clean", "unreadable"}
        /\ c[BatchSpecA] \in {"clean", "to_b", "unreadable"}
        /\ c[BatchSpecB] \in {"clean", "to_a", "missing"}
        /\ c[BatchRef]   \in {"clean", "long", "unreadable"}
        /\ c[BatchSolo]  \in {"prose"}
        /\ c[BatchNote]  \in {"clean"}
        /\ c[BatchOutside] \in {"clean"} }

\* budgets.json: every role limit and the ceiling set, or nothing set
BatchTables ==
    { [flat |-> EmptyDict, overrides |-> EmptyDict],
      [flat |-> [k \in {r \o "_max_words" : r \in Roles} \cup {r \o "_max_tokens" : r \in Roles}
                       \cup {"max_simultaneous_tokens"} |->
                    IF k = "max_simultaneous_tokens" THEN BatchCeiling
                    ELSE IF k \in {r \o "_max_words" : r \in Roles} THEN BatchWords
                    ELSE CeilRatio(BatchWords)],
       overrides |-> EmptyDict] }

BatchArgs == UNION { [1..n -> BatchFiles] : n \in 0..MaxBatch }

BatchInit ==
    /\ budgets \in BatchTables
    /\ rel_path = <<>>
    /\ classification = "skip"
    /\ limits = <<None, None>>
    /\ dirs = BatchDirs
    /\ \E c \in BatchTrees :
          /\ texts = [f \in { g \in BatchFiles : c[g] \notin {"unreadable", "missing"} } |->
                         TextNamed(c[f])]
          /\ words = [f \in { g \in BatchFiles : c[g] # "missing" } |->
                         IF c[f] = "unreadable" THEN Unreadable ELSE text_words(TextNamed(c[f]))]
    /\ errors = <<>>
    /\ repo_root = RepoRoot
    /\ filepath = <<>>
    /\ lines = <<>>
    /\ siblings = {}
    /\ specialist_name = ""
    /\ CeilIdle
    /\ hook \in HardHooks \cup AdvisoryHooks
    /\ argv \in BatchArgs
    /\ idx = 0
    /\ all_errors = <<>>
    /\ all_warnings = <<>>
    /\ checked = {}
    /\ exit_code = NotExited
    /\ pc = "main"

\* the lines open().readlines() gives for a readable file
TextOf(f) == IF f \in DOMAIN texts THEN texts[f] ELSE <<>>

\* if len(sys.argv) < 2: sys.exit(0)
EarlyExit ==
    /\ pc = "main"
    /\ argv = <<>>
    /\ exit_code' = 0
    /\ pc' = "exited"
    /\ UNCHANGED <<budgetVars, isoVars, ceilVars, dirs, words, errors,
                   hook, argv, idx, texts, all_errors, all_warnings, checked>>

\* check_isolation.main, one iteration of the loop of lines 115-119
IsolationStep ==
    /\ pc = "main"
    /\ hook = "isolation"
    /\ idx < Len(argv)
    /\ filepath' = argv[idx + 1]
    /\ \E sibs \in Perms(find_sibling_specialists(FS, argv[idx + 1])[1]) :
          all_errors' = extend(all_errors,
                               check_file(FS, argv[idx + 1], repo_root, TextOf(argv[idx + 1]), sibs))
    /\ idx' = idx + 1
    /\ UNCHANGED <<budgetVars, ceilVars, dirs, words, errors, repo_root, lines, siblings,
                   specialist_name, hook, argv, texts, all_warnings, checked, exit_code, pc>>

\* variant: a directory is analyzed again for every input path that maps to it
skip_path_no_dedup(skill_dir, done) == ~skill_dir.found

\* line 107: skill_dir is None or skill_dir in checked
skip_path(skill_dir, done) == ~skill_dir.found \/ skill_dir.dir \in done

\* check_context_load.main, one iteration of the loop of lines 90-113
ContextLoadStep ==
    /\ pc = "main"
    /\ hook = "context_load"
    /\ idx < Len(argv)
    /\ filepath' = argv[idx + 1]
    /\ LET skill_dir == find_skill_dir(FS, argv[idx + 1], repo_root)
       IN  IF skip_path(skill_dir, checked)
           THEN UNCHANGED <<checked, all_errors>>
           ELSE /\ checked' = checked \cup {skill_dir.dir}
                /\ IF isdir(FS, join(skill_dir.dir, "skills"))
                   THEN \E ord \in Perms(RefNames) :
                           all_errors' = extend(all_errors,
                                                check_suite(FS, skill_dir.dir, repo_root, budgets, ord))
                   ELSE UNCHANGED all_errors
    /\ idx' = idx + 1
    /\ UNCHANGED <<budgetVars, ceilVars, dirs, words, errors, repo_root, lines, siblings,
                   specialist_name, hook, argv, texts, all_warnings, exit_code, pc>>

\* check_token_budget.main, one iteration of the loop of lines 69-72
TokenBudgetStep ==
    /\ pc = "main"
    /\ hook = "token_budget"
    /\ idx < Len(argv)
    /\ filepath' = argv[idx + 1]
    /\ all_warnings' = extend(all_warnings, budget_check_file(FS, argv[idx + 1], repo_root, budgets))
    /\ idx' = idx + 1
    /\ UNCHANGED <<budgetVars, ceilVars, dirs, words, errors, repo_root, lines, siblings,
                   specialist_name, hook, argv, texts, all_errors, checked, exit_code, pc>>

\* check_prose.main, one iteration of the loop of lines 110-113
ProseStep ==
    /\ pc = "main"
    /\ hook = "prose"
    /\ idx < Len(argv)
    /\ filepath' = argv[idx + 1]
    /\ all_warnings' = extend(all_warnings,
                              prose_check_file(FS, argv[idx + 1], repo_root, TextOf(argv[idx + 1])))
    /\ idx' = idx + 1
    /\ UNCHANGED <<budgetVars, ceilVars, dirs, words, errors, repo_root, lines, siblings,
                   specialist_name, hook, argv, texts, all_errors, checked, exit_code, pc>>

\* the final sys.exit of main(), after the loop
Exit ==
    /\ pc = "main"
    /\ argv # <<>>
    /\ idx = Len(argv)
    /\ exit_code' = exit_status(hook, all_errors, all_warnings)
    /\ pc' = "exited"
    /\ UNCHANGED <<budgetVars, isoVars, ceilVars, dirs, words, errors,
                   hook, argv, idx, texts, all_errors, all_warnings, checked>>

BatchNext ==
    \/ EarlyExit
    \/ IsolationStep
    \/ ContextLoadStep
    \/ TokenBudgetStep
    \/ ProseStep
    \/ Exit

BatchSpec == BatchInit /\ [][BatchNext]_vars

(***************************************************************************)
(* Claims about the batch runs (checked under BatchSpec)                    *)
(***************************************************************************)
\* the HARD findings of the i-th input path taken by itself: those of the
\* isolation check of the file, or of the context-load check of its suite
IsolationFindings(i) ==
    check_file(FS, argv[i], repo_root, TextOf(argv[i]),
               sorted(find_sibling_specialists(FS, argv[i])[1]))

SuiteFindings(i) ==
    LET skill_dir == find_skill_dir(FS, argv[i], repo_root)
    IN  IF skill_dir.found /\ isdir(FS, join(skill_dir.dir, "skills"))
        THEN check_suite(FS, skill_dir.dir, repo_root, budgets, sorted(RefNames))
        ELSE <<>>

HardFindings(i) ==
    IF hook = "isolation" THEN IsolationFindings(i)
    ELSE IF hook = "context_load" THEN SuiteFindings(i)
    ELSE <<>>

\* no earlier input path belongs to the skill directory of the i-th one
FirstOfSuite(i) ==
    \A j \in 1..(i - 1) :
        find_skill_dir(FS, argv[j], repo_root) # find_skill_dir(FS, argv[i], repo_root)

\* what the i-th input path adds to the output: its findings, a suite's
\* findings once per run
Contribution(i) ==
    IF hook = "context_load" /\ ~FirstOfSuite(i) THEN <<>> ELSE HardFindings(i)

RECURSIVE FindingsUpTo(_)
FindingsUpTo(n) == IF n = 0 THEN <<>> ELSE FindingsUpTo(n - 1) \o Contribution(n)

\* C17: at exit, a HARD hook's exit code is 1 exactly when some input path of
\* the batch has a HARD finding, else 0; an advisory hook's exit code is 0
\* whatever it collected; with an empty input list the exit code is 0 and
\* nothing was evaluated.
C17_ExitCodeIffHardFinding ==
    pc = "exited" =>
      /\ hook \in HardHooks =>
            /\ exit_code \in {0, 1}
            /\ exit_code = 1 <=> (\E i \in 1..Len(argv) : HardFindings(i) # <<>>)
      /\ hook \in AdvisoryHooks => exit_code = 0
      /\ argv = <<>> =>
            /\ exit_code = 0
            /\ all_errors = <<>> /\ all_warnings = <<>> /\ checked = {} /\ filepath = <<>>

\* C17 witness: a HARD hook exits 1 on a batch of two paths of which only
\* the first has findings.
C17_Witness ==
    /\ pc = "exited"
    /\ hook \in HardHooks
    /\ Len(argv) = 2
    /\ HardFindings(1) # <<>>
    /\ HardFindings(2) = <<>>
    /\ exit_code = 1

\* C18: while input paths remain, every step of main() handles the next one
\* and stays in the loop, whatever was found so far, and main() exits only
\* after the last one; the HARD findings collected after idx input paths
\* are, in input order, the findings of each of these paths, none dropped
\* and each a finding of one file.
C18_FindingsCollectedNotThrown ==
    /\ [](hook \in HardHooks => all_errors = FindingsUpTo(idx))
    /\ [](pc = "exited" => idx = Len(argv))
    /\ [][idx < Len(argv) => (idx' = idx + 1 /\ pc' = "main")]_vars

\* C18 witness: a run has ended whose two input paths are different files
\* with HARD findings each, all of them in the output.
C18_Witness ==
    /\ pc = "exited"
    /\ hook \in HardHooks
    /\ Len(argv) = 2
    /\ argv[1] # argv[2]
    /\ Contribution(1) # <<>>
    /\ Contribution(2) # <<>>
    /\ Len(all_errors) = Len(Contribution(1)) + Len(Contribution(2))

\* the file exists and can be read and decoded
Readable(f) == isfile(FS, f) /\ words[f] # Unreadable

\* the output has a finding that reports file f as not readable
ReportedUnreadable(f) ==
    \E k \in 1..Len(all_errors) :
        /\ "kind" \in DOMAIN all_errors[k]
        /\ all_errors[k].kind = "unreadable"
        /\ all_errors[k].file = relpath(f, repo_root)

\* the i-th input path is a document the isolation check opens
IsolationReads(i) ==
    /\ ~is_excluded(argv[i], repo_root)
    /\ classify_file(FS, argv[i], repo_root) = "specialist"
    /\ find_sibling_specialists(FS, argv[i])[1] # {}

\* the files on disk the context-load check reads for the suite of the i-th
\* input path: the coordinator document, the specialist documents and
\* their reference files
SuiteReads(i) ==
    LET skill_dir  == find_skill_dir(FS, argv[i], repo_root)
        skills_dir == join(skill_dir.dir, "skills")
        docs       == { join(join(skills_dir, e), "SKILL.md") : e \in listdir(FS, skills_dir) }
    IN  IF skill_dir.found /\ isdir(FS, skills_dir) /\ isfile(FS, join(skill_dir.dir, "SKILL.md"))
        THEN { join(skill_dir.dir, "SKILL.md") }
                \cup { f \in docs : isfile(FS, f) }
                \cup { f \in DOMAIN words :
                          /\ EndsWithMd(basename(f))
                          /\ basename(dirname(f)) = "references"
                          /\ join(dirname(dirname(f)), "SKILL.md") \in docs \cap DOMAIN words }
        ELSE {}

\* C19: at exit, every file a check had to read and could not (missing,
\* unreadable, undecodable) is reported by a finding for that file: the
\* specialist document in the isolation check; the coordinator, specialist
\* and reference files in the context-load check.
C19_UnreadableFilesAreReported ==
    pc = "exited" =>
      /\ hook = "isolation" =>
            \A i \in 1..Len(argv) :
                (IsolationReads(i) /\ ~Readable(argv[i])) => ReportedUnreadable(argv[i])
      /\ hook = "context_load" =>
            \A i \in 1..Len(argv) : \A f \in SuiteReads(i) :
                ~Readable(f) => ReportedUnreadable(f)

(***************************************************************************)
(* Claim about re-running a check (checked under IsoSpec)                  *)
(***************************************************************************)
\* C20: a second run of the isolation check on the same tree and file gives
\* the findings of the first run, in the same order, whatever order the
\* sibling set is iterated in.
C20_RerunGivesSameFindings ==
    pc = "done" =>
      \A sibs \in Perms(find_sibling_specialists(FS, filepath)[1]) :
          check_file(FS, filepath, repo_root, lines, sibs) = errors

\* C21: the isolation check returns no findings for a document that is not
\* classified as specialist, and none for a specialist with no sibling
\* directory next to it under its skills/ directory, whatever its lines hold.
C21_NoFindingsForNonSpecialistOrSolo ==
    pc = "done" =>
       /\ classify_file(FS, filepath, repo_root) # "specialist" => errors = <<>>
       /\ (classify_file(FS, filepath, repo_root) = "specialist" /\ OwnSiblings = {})
             => errors = <<>>

\* C22: a line of a specialist document that is exactly ../X/SKILL.md, X a
\* sibling directory, has exactly one finding, which names X: no finding of
\* that line names another sibling, whatever other siblings there are.
C22_OneFindingForSiblingPath ==
    (pc = "done" /\ siblings = OwnSiblings) =>
       \A i \in 1..Len(lines), x \in siblings :
          lines[i] = <<"..", "/">> \o Tok(x) \o <<"/", "SKILL.md">> =>
             /\ Cardinality(IsoFindings(i, x)) = 1
             /\ \A k \in 1..Len(errors) : errors[k].line = i => errors[k].target = x

(***************************************************************************)
(* Claims about check_context_load.main (checked under BatchSpec)          *)
(***************************************************************************)
\* the skill directory the i-th input path maps to
SkillDirOf(i) == find_skill_dir(FS, argv[i], repo_root)

\* C23: in a run of the context-load hook the already-checked set holds the
\* skill directory of every input path handled so far, an input path whose
\* directory is in that set adds nothing, no two findings are for the same
\* specialist of the same suite, and the set of findings is the union of
\* the findings of the suites of the paths handled, whatever their order.
C23_SuiteAnalyzedOncePerBatch ==
    /\ [](hook = "context_load" =>
            /\ checked = { SkillDirOf(i).dir : i \in { j \in 1..idx : SkillDirOf(j).found } }
            /\ \A k, l \in 1..Len(all_errors) :
                  k # l => all_errors[k].rel_spec # all_errors[l].rel_spec
            /\ Range(all_errors) = UNION { Range(SuiteFindings(i)) : i \in 1..idx })
    /\ [][(hook = "context_load" /\ idx < Len(argv) /\ SkillDirOf(idx + 1).dir \in checked)
             => all_errors' = all_errors]_vars

\* C23 witness: a run has ended whose two input paths are different files
\* of the same suite, and the suite's findings are in the output once.
C23_Witness ==
    /\ pc = "exited"
    /\ hook = "context_load"
    /\ Len(argv) = 2
    /\ argv[1] # argv[2]
    /\ SkillDirOf(1) = SkillDirOf(2)
    /\ SuiteFindings(1) # <<>>
    /\ all_errors = SuiteFindings(1)

\* the directories that enclose the path fp and hold a skill document
DocDirsAbove(fp) ==
    { d \in Prefixes(dirname(fp)) \cup {<<>>} : isfile(FS, join(d, "SKILL.md")) }

\* the nearest of them
NearestDocDir(fp) ==
    CHOOSE d \in DocDirsAbove(fp) : \A e \in DocDirsAbove(fp) : Len(e) <= Len(d)

\* the nearest skill document above fp is a specialist or a standalone one
UnderSpecialistOrStandalone(fp) ==
    /\ DocDirsAbove(fp) # {}
    /\ classify_file(FS, join(NearestDocDir(fp), "SKILL.md"), repo_root)
          \in {"specialist", "standalone"}

\* C24: in a run of the context-load hook an input path adds findings only
\* if the nearest directory above it that holds a skill document has a
\* skills/ subdirectory, and the findings are those of that directory's
\* suite; a batch whose paths all lie under specialist or standalone skill
\* directories ends with no findings and exit code 0; the upward walk gives
\* a result for every input path, also for a path outside the repository.
C24_SuiteCheckOnlyForCoordinators ==
    /\ [][(hook = "context_load" /\ all_errors' # all_errors) =>
             /\ DocDirsAbove(argv[idx + 1]) # {}
             /\ isdir(FS, join(NearestDocDir(argv[idx + 1]), "skills"))
             /\ \A k \in (Len(all_errors) + 1)..Len(all_errors') :
                   SubSeq(all_errors'[k].rel_spec, 1,
                          Len(PathStr(relpath(NearestDocDir(argv[idx + 1]), repo_root))))
                      = PathStr(relpath(NearestDocDir(argv[idx + 1]), repo_root))]_vars
    /\ []((hook = "context_load" /\ pc = "exited" /\ argv # <<>>
              /\ \A i \in 1..Len(argv) : UnderSpecialistOrStandalone(argv[i]))
            => (all_errors = <<>> /\ exit_code = 0))
    /\ [](\A f \in BatchFiles : walk_up(FS, dirname(f), repo_root).found \in BOOLEAN)

\* C24 witness: a run has ended with exit code 0 on a reference file of a
\* specialist and a standalone document, in a tree whose suite exceeds its
\* ceiling.
C24_Witness ==
    /\ pc = "exited"
    /\ hook = "context_load"
    /\ argv = <<BatchRef, BatchSolo>>
    /\ UnderSpecialistOrStandalone(BatchRef)
    /\ UnderSpecialistOrStandalone(BatchSolo)
    /\ check_suite(FS, <<"r", "s">>, repo_root, budgets, sorted(RefNames)) # <<>>
    /\ all_errors = <<>>
    /\ exit_code = 0

(***************************************************************************)
(* Claim about the largest reference (checked under SuiteSpec)             *)
(***************************************************************************)
\* the largest markdown files directly inside the references/ directory of e
LargestRefs(e) ==
    { f \in OwnRefs(e) : \A g \in OwnRefs(e) : estimate_tokens(FS, g) <= estimate_tokens(FS, f) }

\* C25: the reference named in a finding is a markdown file directly inside
\* the specialist's references/ directory with the largest token estimate,
\* and among several of that size the first in sorted filename order,
\* whatever order the directory listing has.
C25_LargestReferenceFirstInSortedOrder ==
    pc = "done" =>
       \A k \in 1..Len(errors) :
          errors[k].reference > 0 =>
             LET best == { basename(f) : f \in LargestRefs(errors[k].entry) }
             IN  errors[k].max_ref_name
                    = relpath(join(join(SpecDir(errors[k].entry), "references"), sorted(best)[1]),
                              RepoRoot)

(***************************************************************************)
(* _utils.py: count_body_words                                             *)
(***************************************************************************)
\* the text of a file as one token sequence, "\n" between its lines
RECURSIVE Flatten(_)
Flatten(content) ==
    IF content = <<>> THEN <<>>
    ELSE IF Len(content) = 1 THEN content[1]
    ELSE content[1] \o <<"\n">> \o Flatten(Tail(content))

\* len(text.split()) for a token sequence
flat_words(text) ==
    Cardinality({ i \in 1..Len(text) :
                     /\ text[i] \notin {" ", "\n"}
                     /\ (i = 1 \/ text[i - 1] \in {" ", "\n"}) })

\* count_body_words(filepath) for a readable file with the given lines: the
\* text up to and including the second "---" is dropped when the text
\* starts with "---"
count_body_words(content) ==
    LET text == Flatten(content)
        ends == { i \in 2..Len(text) : text[i] = "---" }
    IN  IF Len(text) > 0 /\ text[1] = "---" /\ ends # {}
        THEN flat_words(SubSeq(text, (CHOOSE i \in ends : \A j \in ends : i <= j) + 1, Len(text)))
        ELSE flat_words(text)

(***************************************************************************)
(* Document run: a skill document is written line by line, then one of    *)
(* the per-file checks is called for it (check_token_budget.main line 70,  *)
(* check_prose.main line 111)                                              *)
(***************************************************************************)
MaxDocLines == 3     \* the document has at most MaxDocLines lines

DocFile == <<"r", "x", "SKILL.md">>

\* the lines a document is written from (text.split("\n") of the file)
DocLines ==
    { <<"---">>,
      <<"name:", " ", "x">>,
      <<"##", " ", "Procedure", " ", "basically">>,
      <<"##", " ", "notes">>,
      <<"###", " ", "detail">>,
      <<"you", " ", "should">>,
      <<"w", " ", "w", " ", "w", " ", "w", " ", "w">>,
      <<>> }

\* budgets.json: no word limit for the role, or one of these
DocLimits == {0, 2, 10}

DocTables ==
    { [flat |-> EmptyDict, overrides |-> EmptyDict] }
       \cup { [flat |-> [k \in {"standalone_max_words"} |-> v], overrides |-> EmptyDict] :
                 v \in DocLimits }

DocInit ==
    /\ budgets \in DocTables
    /\ rel_path = <<>>
    /\ classification = "skip"
    /\ limits = <<None, None>>
    /\ dirs = Prefixes(dirname(DocFile))
    /\ words = [f \in {DocFile} |-> 0]
    /\ errors = <<>>
    /\ repo_root = RepoRoot
    /\ filepath = DocFile
    /\ lines = <<>>
    /\ siblings = {}
    /\ specialist_name = ""
    /\ CeilIdle
    /\ BatchIdle
    /\ pc = "write"

\* a line is appended to the document
WriteDocLine(l) ==
    /\ pc = "write"
    /\ Len(lines) < MaxDocLines
    /\ lines' = Append(lines, l)
    /\ words' = [f \in {DocFile} |-> text_words(Append(lines, l))]
    /\ UNCHANGED <<budgetVars, ceilVars, batchVars, dirs, errors, repo_root, filepath, siblings,
                   specialist_name, pc>>

\* warnings = check_file(filepath, repo_root, budgets) of check_token_budget
CheckBudget ==
    /\ pc = "write"
    /\ hook' = "token_budget"
    /\ all_warnings' = budget_check_file(FS, filepath, repo_root, budgets)
    /\ pc' = "checked"
    /\ UNCHANGED <<budgetVars, isoVars, ceilVars, dirs, words, errors,
                   argv, idx, texts, all_errors, checked, exit_code>>

\* warnings = check_file(filepath, repo_root) of check_prose
CheckProse ==
    /\ pc = "write"
    /\ hook' = "prose"
    /\ all_warnings' = prose_check_file(FS, filepath, repo_root, lines)
    /\ pc' = "checked"
    /\ UNCHANGED <<budgetVars, isoVars, ceilVars, dirs, words, errors,
                   argv, idx, texts, all_errors, checked, exit_code>>

DocNext ==
    \/ \E l \in DocLines : WriteDocLine(l)
    \/ CheckBudget
    \/ CheckProse

DocSpec == DocInit /\ [][DocNext]_vars

(***************************************************************************)
(* Claims about the per-file checks (checked under DocSpec)                *)
(***************************************************************************)
\* the document starts with a frontmatter block
HasFrontmatter == count_body_words(lines) # text_words(lines)

\* C26: the word count the token-budget check reports and compares is the
\* count of the document without its frontmatter, the context-load estimate
\* of the file is that of its whole text, and for a document without
\* frontmatter the two counts are equal, so the estimate of the count is
\* the estimate of the file.
C26_BudgetCountsBodyEstimateCountsFile ==
    (pc = "checked" /\ hook = "token_budget") =>
       /\ estimate_tokens(FS, filepath) = CeilRatio(text_words(lines))
       /\ ~HasFrontmatter => CeilRatio(count_body_words(lines)) = estimate_tokens(FS, filepath)
       /\ LET max_words == get_budget_limits(PathStr(relpath(filepath, repo_root)),
                                             classify_file(FS, filepath, repo_root), budgets)[1]
              body      == count_body_words(lines)
          IN  /\ \A k \in 1..Len(all_warnings) : all_warnings[k].words = body
              /\ (max_words # None /\ max_words > 0) =>
                     ((\E k \in 1..Len(all_warnings) : all_warnings[k].kind = "WARNING")
                         <=> body > max_words)

\* the messages of the given kind the token-budget check returned
BudgetMessages(kind) == { k \in 1..Len(all_warnings) : all_warnings[k].kind = kind }

\* C28: for a file that is not skipped and has a word limit max_words
\* resolved (0 included), the token-budget check returns an over-budget
\* WARNING exactly when word_count > max_words, a near-budget INFO exactly
\* when 0.9 * max_words < word_count <= max_words, nothing otherwise, and
\* never more than one message.
C28_BudgetThresholds ==
    (pc = "checked" /\ hook = "token_budget") =>
       LET cls        == classify_file(FS, filepath, repo_root)
           max_words  == get_budget_limits(PathStr(relpath(filepath, repo_root)), cls, budgets)[1]
           word_count == text_words(lines)
       IN  (cls # "skip" /\ max_words # None) =>
              /\ Len(all_warnings) <= 1
              /\ BudgetMessages("WARNING") # {} <=> word_count > max_words
              /\ BudgetMessages("INFO") # {}
                    <=> (WARN_THRESHOLD_NUM * max_words < WARN_THRESHOLD_DEN * word_count
                            /\ word_count <= max_words)
              /\ BudgetMessages("WARNING") \cup BudgetMessages("INFO") = 1..Len(all_warnings)

\* line i of the document (1-based) is a level-2 heading: "##", white space, a title
Level2(i) ==
    \E n \in 1..Len(lines[i]) :
        /\ lines[i][n] = "##"
        /\ \A m \in 1..(n - 1) : lines[i][m] = " "
        /\ n + 1 < Len(lines[i])
        /\ lines[i][n + 1] = " "
        /\ \E m \in (n + 2)..Len(lines[i]) : lines[i][m] # " "

\* a level-2 heading whose title holds "procedure", in any case
ProcedureHeading(i) ==
    Level2(i) /\ \E n \in 1..Len(lines[i]) : lines[i][n] \in {"procedure", "Procedure"}

\* line i lies after a procedure heading, with no level-2 heading from the
\* line after that heading up to line i itself
InProcedureSection(i) ==
    \E h \in 1..(i - 1) :
        ProcedureHeading(h) /\ \A j \in (h + 1)..i : ~Level2(j)

\* line i holds one of the prohibited patterns, in any case
Prohibited(i) ==
    \E k \in 1..Len(PROHIBITED_PATTERNS) : Contains(LowerLine(lines[i]), PROHIBITED_PATTERNS[k])

\* C30: every warning of the prose check is for a line that lies after a
\* level-2 heading with "procedure" in its title and before the next
\* level-2 heading or the end of the file, never for a heading line or a
\* line outside such a section; a line of such a section with a prohibited
\* pattern is reported also after a deeper heading; the ranges returned by
\* find_procedure_sections are within the file, in increasing order and
\* disjoint.
C30_ProseOnlyInProcedureSections ==
    (pc = "checked" /\ hook = "prose") =>
       /\ \A k \in 1..Len(all_warnings) :
             /\ all_warnings[k].line \in 1..Len(lines)
             /\ InProcedureSection(all_warnings[k].line)
       /\ \A i \in 1..Len(lines) :
             (InProcedureSection(i) /\ Prohibited(i))
                => \E k \in 1..Len(all_warnings) : all_warnings[k].line = i
       /\ LET ranges == find_procedure_sections(lines)
          IN  /\ \A k \in 1..Len(ranges) :
                    0 <= ranges[k][1] /\ ranges[k][1] <= ranges[k][2] /\ ranges[k][2] <= Len(lines)
              /\ \A k \in 1..(Len(ranges) - 1) : ranges[k][2] < ranges[k + 1][1]

\* C30 witness: a procedure heading that holds a prohibited word, a deeper
\* heading and a line with a prohibited pattern; the only warning is for
\* the third line.
C30_Witness ==
    /\ pc = "checked"
    /\ hook = "prose"
    /\ Len(lines) = 3
    /\ ProcedureHeading(1) /\ Prohibited(1)
    /\ lines[2] = <<"###", " ", "detail">>
    /\ Prohibited(3)
    /\ Len(all_warnings) = 1
    /\ all_warnings[1].line = 3

(***************************************************************************)
(* scripts/budget-report.py: its own classify_file and get_budget_limits   *)
(***************************************************************************)
\* the value standing for a KeyError raised by the call
Raised == None - 1

\* budget-report.py classify_file(filepath, repo_root)
report_classify_file(fs, fp, root) ==
    LET parts == relpath(fp, root)
    IN  IF ("references" \in Range(parts) \/ "shared-references" \in Range(parts))
              /\ EndsWithMd(basename(fp))
        THEN "reference"
        ELSE IF basename(fp) # "SKILL.md" THEN "skip"
        ELSE IF isdir(fs, join(dirname(fp), "skills")) THEN "coordinator"
        ELSE IF "skills" \in Range(parts) THEN "specialist"
        ELSE "standalone"

\* budget-report.py get_budget_limits(rel_path, classification, budgets);
\* override[token_key] raises KeyError when the key is absent
report_get_budget_limits(rp, cls, b) ==
    LET overrides  == b.overrides
        normalized == ReplaceBackslash(rp)
        word_key   == cls \o "_max_words"
        token_key  == cls \o "_max_tokens"
    IN  IF normalized \in DOMAIN overrides /\ word_key \in DOMAIN overrides[normalized]
        THEN IF token_key \in DOMAIN overrides[normalized]
             THEN <<overrides[normalized][word_key], overrides[normalized][token_key]>>
             ELSE <<Raised, Raised>>
        ELSE <<Get(b.flat, word_key), Get(b.flat, token_key)>>

\* a tree with an excluded directory, a suite and a standalone skill
ReportTree ==
    [dirs  |-> Prefixes(<<"r", "s", "skills", "x", "references">>)
                  \cup {<<"r", "templates">>, <<"r", "y">>},
     words |-> EmptyDict]

ReportPaths ==
    { <<"r", "templates", "SKILL.md">>, <<"r", "s", "SKILL.md">>,
      <<"r", "s", "skills", "x", "SKILL.md">>,
      <<"r", "s", "skills", "x", "references", "r1.md">>,
      <<"r", "y", "SKILL.md">>, <<"r", "s", "n.txt">> }

\* C29: the budget report's get_budget_limits returns, without raising, the
\* limits the hooks' get_budget_limits returns for the same path, role and
\* budget table, and its classify_file gives every path the role the hooks'
\* classify_file gives it.
C29_ReportAgreesWithHooks ==
    pc = "done" =>
       /\ classification \in Roles =>
             report_get_budget_limits(rel_path, classification, budgets) = limits
       /\ \A fp \in ReportPaths :
             report_classify_file(ReportTree, fp, RepoRoot) = classify_file(ReportTree, fp, RepoRoot)

(***************************************************************************)
(* check_references.py                                                     *)
(***************************************************************************)
\* the token standing for the backtick character
Backtick == "BACKTICK"

\* the text ends in ".md" or "/" after at least one more character: the
\* tail of each of the three patterns, one or more characters and then
\* ".md" or "/"
EndsAsPath(text) ==
    /\ text # <<>>
    /\ \/ EndsWithMd(text[Len(text)])
       \/ (text[Len(text)] = "/" /\ Len(text) >= 2)

\* BACKTICK_PATH_RE.finditer(line) from position pos on: the groups of the
\* matches, left to right, no two overlapping
RECURSIVE backtick_paths(_, _)
backtick_paths(line, pos) ==
    IF pos > Len(line) THEN <<>>
    ELSE IF line[pos] # Backtick THEN backtick_paths(line, pos + 1)
    ELSE LET closes == { j \in (pos + 1)..Len(line) : line[j] = Backtick }
         IN  IF closes = {} THEN <<>>
             ELSE LET j == CHOOSE c \in closes : \A e \in closes : c <= e
                  IN  IF EndsAsPath(SubSeq(line, pos + 1, j - 1))
                      THEN <<SubSeq(line, pos + 1, j - 1)>> \o backtick_paths(line, j + 1)
                      ELSE backtick_paths(line, pos + 1)

\* the first position from pos on whose token is not in the set skip
RECURSIVE SkipWhile(_, _, _)
SkipWhile(line, pos, skip) ==
    IF pos <= Len(line) /\ line[pos] \in skip THEN SkipWhile(line, pos + 1, skip) ELSE pos

\* the first position from pos on whose token is in the set stop
RECURSIVE SkipUntil(_, _, _)
SkipUntil(line, pos, stop) ==
    IF pos <= Len(line) /\ line[pos] \notin stop THEN SkipUntil(line, pos + 1, stop) ELSE pos

\* TABLE_PATH_RE matched at position pos: a pipe, white space, an optional
\* backtick, the group (no pipe, backtick or white space in it), an
\* optional backtick, white space, a pipe
table_match(line, pos) ==
    LET open   == SkipWhile(line, pos + 1, {" "})
        first  == IF open <= Len(line) /\ line[open] = Backtick THEN open + 1 ELSE open
        after  == SkipUntil(line, first, {"|", Backtick, " "})
        tick   == IF after <= Len(line) /\ line[after] = Backtick THEN after + 1 ELSE after
        close  == SkipWhile(line, tick, {" "})
    IN  [ok    |-> /\ line[pos] = "|"
                   /\ EndsAsPath(SubSeq(line, first, after - 1))
                   /\ close <= Len(line) /\ line[close] = "|",
         group |-> SubSeq(line, first, after - 1),
         end   |-> close]

\* TABLE_PATH_RE.finditer(line) from position pos on
RECURSIVE table_paths(_, _)
table_paths(line, pos) ==
    IF pos > Len(line) THEN <<>>
    ELSE IF table_match(line, pos).ok
    THEN <<table_match(line, pos).group>> \o table_paths(line, table_match(line, pos).end + 1)
    ELSE table_paths(line, pos + 1)

\* BARE_PATH_RE matched with its group starting at position pos: at the
\* start of the line or after white space, references/ or
\* shared-references/, then the longest text without white space, ")", ">"
\* or "]" that ends as a path
bare_match(line, pos) ==
    LET run  == SkipUntil(line, pos + 2, {" ", ")", ">", "]"})
        ends == { k \in (pos + 2)..(run - 1) : EndsAsPath(SubSeq(line, pos + 2, k)) }
        last == IF ends = {} THEN 0 ELSE CHOOSE k \in ends : \A e \in ends : e <= k
    IN  [ok    |-> /\ (pos = 1 \/ line[pos - 1] = " ")
                   /\ line[pos] \in {"references", "shared-references"}
                   /\ pos + 1 <= Len(line) /\ line[pos + 1] = "/"
                   /\ ends # {},
         group |-> SubSeq(line, pos, last),
         end   |-> last]

\* BARE_PATH_RE.finditer(line) from position pos on
RECURSIVE bare_paths(_, _)
bare_paths(line, pos) ==
    IF pos > Len(line) THEN <<>>
    ELSE IF bare_match(line, pos).ok
    THEN <<bare_match(line, pos).group>> \o bare_paths(line, bare_match(line, pos).end + 1)
    ELSE bare_paths(line, pos + 1)

\* _looks_like_file_path(s)
looks_like_file_path(path) ==
    /\ "/" \in Range(path)
    /\ ~(path # <<>> /\ path[1] \in {"http://", "https://"})
    /\ " " \notin Range(path)

\* variant: every match is kept, also one already seen on the line
keep_new_all(paths, seen) == paths

\* lines 30-33: the paths not seen before on the line, each once
RECURSIVE keep_new(_, _)
keep_new(paths, seen) ==
    IF paths = <<>> THEN <<>>
    ELSE IF Head(paths) \in seen THEN keep_new(Tail(paths), seen)
    ELSE <<Head(paths)>> \o keep_new(Tail(paths), seen \cup {Head(paths)})

\* the (line_num, path) pairs find_references appends for one line
line_references(line_num, line) ==
    LET ticks  == SelectSeq(backtick_paths(line, 1), looks_like_file_path)
        tables == SelectSeq(table_paths(line, 1), looks_like_file_path)
        bares  == bare_paths(line, 1)
        paths  == keep_new(ticks \o tables \o bares, {})
    IN  [k \in 1..Len(paths) |-> [line |-> line_num, path |-> paths[k]]]

\* find_references(text) from line line_num on
RECURSIVE find_references(_, _)
find_references(content, line_num) ==
    IF line_num > Len(content) THEN <<>>
    ELSE line_references(line_num, content[line_num]) \o find_references(content, line_num + 1)

\* os.path.normpath on segments: "." dropped, ".." removes the segment before it
RECURSIVE normpath(_, _)
normpath(segs, acc) ==
    IF segs = <<>> THEN acc
    ELSE IF Head(segs) = "." THEN normpath(Tail(segs), acc)
    ELSE IF Head(segs) = ".."
    THEN normpath(Tail(segs), IF acc = <<>> THEN acc ELSE SubSeq(acc, 1, Len(acc) - 1))
    ELSE normpath(Tail(segs), Append(acc, Head(segs)))

\* the segments of a path text: its tokens other than "/"
Segments(path) == SelectSeq(path, LAMBDA t : t # "/")

\* os.path.normpath(os.path.join(base, ref_path)); an absolute ref_path
\* replaces the base
resolve(base, path) ==
    IF path # <<>> /\ path[1] = "/" THEN normpath(Segments(path), <<>>)
    ELSE normpath(Segments(path), base)

\* os.path.exists
exists(fs, p) == isdir(fs, p) \/ isfile(fs, p)

\* lines 94-103: the search bases
search_bases(fs, fp, root) ==
    LET shared_refs == join(root, "shared-references")
    IN  {dirname(fp), root}
           \cup (IF isdir(fs, shared_refs)
                 THEN { join(shared_refs, e) : e \in { n \in listdir(fs, shared_refs) :
                                                          isdir(fs, join(shared_refs, n)) } }
                 ELSE {})

\* lines 105-116: the findings for the references refs
RECURSIVE broken_references(_, _, _, _, _)
broken_references(fs, fp, root, rel, refs) ==
    IF refs = <<>> THEN <<>>
    ELSE (IF \E base \in search_bases(fs, fp, root) : exists(fs, resolve(base, Head(refs).path))
          THEN <<>>
          ELSE << [kind |-> "broken", file |-> rel, line |-> Head(refs).line,
                   path |-> Head(refs).path] >>)
            \o broken_references(fs, fp, root, rel, Tail(refs))

\* check_file(filepath, repo_root) of check_references: the errors returned,
\* for a file whose lines are content
references_check_file(fs, fp, root, content) ==
    IF is_excluded(fp, root) THEN <<>>
    ELSE IF basename(fp) # "SKILL.md" THEN <<>>
    ELSE IF ~isfile(fs, fp) \/ fs.words[fp] = Unreadable
    THEN << [kind |-> "unreadable", file |-> relpath(fp, root), line |-> 0, path |-> <<>>] >>
    ELSE broken_references(fs, fp, root, relpath(fp, root), find_references(content, 1))

(***************************************************************************)
(* Reference run: a tree is given, the skill document r/s/SKILL.md is      *)
(* written line by line, then check_file of check_references is called     *)
(* once for it (check_references.main line 131)                            *)
(***************************************************************************)
MaxRefLines == 2     \* the document has at most MaxRefLines lines

RefDoc == <<"r", "s", "SKILL.md">>

\* the lines the document is written from
RefLines ==
    { <<"see", " ", Backtick, "references", "/", "r1.md", Backtick>>,
      <<"|", " ", "references", "/", "r1.md", " ", "|">>,
      <<"|", " ", Backtick, "docs", "/", "r2.md", Backtick, " ", "|">>,
      <<"(", "see", " ", "shared-references", "/", "lib", "/", "r1.md", ")">>,
      <<Backtick, "sub", "/", Backtick>>,
      <<Backtick, "https://", "x", "/", Backtick>>,
      <<Backtick, "..", "/", "y", "/", Backtick, " ", Backtick, "..", "/", "y", "/", Backtick>>,
      <<Backtick, "a", " ", "b", "/", Backtick>> }

\* what a tree may hold besides the document: files and directories
RefOptionalFiles ==
    { <<"r", "s", "references", "r1.md">>,
      <<"r", "references", "r1.md">>,
      <<"r", "docs", "r2.md">>,
      <<"r", "shared-references", "lib", "r1.md">> }

RefOptionalDirs ==
    { <<"r", "shared-references", "lib", "sub">>, <<"r", "y">> }

RefInit ==
    /\ budgets = [flat |-> EmptyDict, overrides |-> EmptyDict]
    /\ rel_path = <<>>
    /\ classification = "skip"
    /\ limits = <<None, None>>
    /\ \E fset \in SUBSET RefOptionalFiles, dset \in SUBSET RefOptionalDirs :
          /\ words = [f \in fset \cup {RefDoc} |-> 0]
          /\ dirs = UNION { Prefixes(dirname(f)) : f \in fset \cup {RefDoc} }
                       \cup UNION { Prefixes(d) : d \in dset }
    /\ errors = <<>>
    /\ repo_root = RepoRoot
    /\ filepath = RefDoc
    /\ lines = <<>>
    /\ siblings = {}
    /\ specialist_name = ""
    /\ CeilIdle
    /\ BatchIdle
    /\ pc = "edit"

\* a line is appended to the document
AppendRefLine(l) ==
    /\ pc = "edit"
    /\ Len(lines) < MaxRefLines
    /\ lines' = Append(lines, l)
    /\ UNCHANGED <<budgetVars, ceilVars, batchVars, dirs, words, errors, repo_root, filepath,
                   siblings, specialist_name, pc>>

\* errors, warnings = check_file(filepath, repo_root) of check_references
CheckReferences ==
    /\ pc = "edit"
    /\ errors' = references_check_file(FS, filepath, repo_root, lines)
    /\ pc' = "done"
    /\ UNCHANGED <<budgetVars, ceilVars, batchVars, dirs, words, repo_root, filepath, lines,
                   siblings, specialist_name>>

RefNext ==
    \/ \E l \in RefLines : AppendRefLine(l)
    \/ CheckReferences

RefSpec == RefInit /\ [][RefNext]_vars

(***************************************************************************)
(* Claim about the reference check (checked under RefSpec)                 *)
(***************************************************************************)
\* the candidate references of the document: its distinct (line, path) pairs
Candidates == Range(find_references(lines, 1))

\* the directories a reference is looked up from
Bases ==
    {dirname(filepath), repo_root}
       \cup { d \in dirs : Len(d) = Len(repo_root) + 2
                              /\ SubSeq(d, 1, Len(repo_root) + 1)
                                    = Append(repo_root, "shared-references") }

\* the path exists under one of them
Resolves(path) == \E base \in Bases : resolve(base, path) \in dirs \cup DOMAIN words

\* the findings of the last check for the pair c
BrokenFor(c) ==
    { k \in 1..Len(errors) :
         errors[k].kind = "broken" /\ errors[k].line = c.line /\ errors[k].path = c.path }

\* C27: for the skill document checked, a candidate reference (line, path)
\* has a broken-reference finding exactly when its path exists under none
\* of the search bases, never more than one, also when several patterns or
\* several matches give the same path on the same line, and every finding
\* is for a candidate.
C27_BrokenIffUnderNoBase ==
    pc = "done" =>
       /\ \A c \in Candidates :
             Cardinality(BrokenFor(c)) = IF Resolves(c.path) THEN 0 ELSE 1
       /\ \A k \in 1..Len(errors) : \E c \in Candidates : k \in BrokenFor(c)

\* C27 witness: the first line names docs/r2.md in backticks inside a table
\* cell and the file exists nowhere; the second names sub/, which exists
\* only under a subdirectory of shared-references/; the only finding is for
\* the first line.
C27_Witness ==
    /\ pc = "done"
    /\ lines = << <<"|", " ", Backtick, "docs", "/", "r2.md", Backtick, " ", "|">>,
                  <<Backtick, "sub", "/", Backtick>> >>
    /\ Cardinality(Candidates) = 2
    /\ <<"r", "shared-references", "lib", "sub">> \in dirs
    /\ Len(errors) = 1
    /\ errors[1].line = 1
    /\ errors[1].path = <<"docs", "/", "r2.md">>

====
